---------------------------- MODULE Spec2Model ----------------------------
(***************************************************************************)
(* A model of the Napoleonic wargame: the per-tick simulation engine      *)
(* (GameEngine), the scene manager and the host/guest synchronisation     *)
(* layer (MultiplayerManager, GameStateSync, PeerConnection).             *)
(*                                                                         *)
(* Two processes (browser tabs) are modelled, named by Procs.  Each owns  *)
(* one GameEngine, one SceneManager and one MultiplayerManager.  JavaScript*)
(* objects are modelled by a heap per process: game[p].objs maps an object *)
(* reference to the Unit object's fields, and the registry                *)
(* (game[p].units), the selection (game[p].selectedUnits) and             *)
(* unit.currentTarget hold references, as in the source.                  *)
(*                                                                         *)
(* Numbers.  JavaScript doubles are modelled in fixed point:              *)
(*   lengths in pixels, time in milliseconds, speeds in pixels/second,    *)
(*   entity counts in 1/100 entity, exhaustion in 1/1000 point,           *)
(*   multipliers in percent (formation) or parts per million (exhaustion),*)
(*   reload progress in parts per million, angles in degrees.             *)
(* Divisions round down.  null coordinates are Null, a null reference is  *)
(* NoRef, a null formation is "NONE", a null winner/team is "none".       *)
(***************************************************************************)
EXTENDS Integers, Sequences, FiniteSets, TLC

VARIABLES
    game,       \* [Procs -> GameEngine state]
    scene,      \* [Procs -> SceneManager.currentScene]
    mp,         \* [Procs -> MultiplayerManager / PeerConnection / InputHandler state]
    inbox,      \* [Procs -> sequence of messages sent to the process, in order]
    trace,      \* what the last step did (observations the properties read)
    inputs,     \* user inputs and game-loop callbacks handled so far
    ai          \* the single-player opponent of the host and its clock

vars == <<game, scene, mp, inbox, trace, inputs, ai>>

(***************************************************************************)
(* Bounds of the model.                                                    *)
(***************************************************************************)
MaxUnits == 3       \* units placed while a registry holds fewer units
MaxInbox == 2       \* messages in flight to one process
MaxInputs == 7      \* user inputs and game-loop callbacks explored, from construction
MaxLiveInputs == 6   \* inputs explored where the events of the connection are fair
MaxBattleInputs == 3 \* of these, the ones explored from a battle in progress
MaxAITicks == 11     \* game-loop callbacks explored against the opponent

Procs == {"host", "guest"}
Other(p) == IF p = "host" THEN "guest" ELSE "host"

Null == 0 - 1
NoRef == 0
Million == 1000 * 1000
EntityScale == 10 * 10

(***************************************************************************)
(* config.js                                                               *)
(***************************************************************************)
CANVAS_WIDTH == 1200
CANVAS_HEIGHT == 800
INFANTRY_ENTITY_COUNT == 100
INFANTRY_MAX_SPEED == 80
INFANTRY_COLLISION_RADIUS == 12
INFANTRY_BASE_DAMAGE == 35
INFANTRY_MELEE_DAMAGE == 15          \* 0.15 entity, in 1/100 entity
INFANTRY_FIRE_RANGE == 250
INFANTRY_RELOAD_DURATION == 15000    \* 15 s, in ms
CAVALRY_ENTITY_COUNT == 50
CAVALRY_MAX_SPEED == 150
CAVALRY_COLLISION_RADIUS == 15
CAVALRY_BASE_DAMAGE == 20
CAVALRY_MELEE_DAMAGE == 25           \* 0.25 entity, in 1/100 entity
CAVALRY_CHARGE_SPEED == 120
CAVALRY_CHARGE_MULTIPLIER == 3
CANNON_ENTITY_COUNT == 15
CANNON_MAX_SPEED == 30
CANNON_COLLISION_RADIUS == 15
CANNON_BASE_DAMAGE == 60
CANNON_MELEE_DAMAGE == 5             \* 0.05 entity, in 1/100 entity
CANNON_FIRE_RANGE == 700
CANNON_RELOAD_DURATION == 30000      \* 30 s, in ms
LINE_ACCURACY_BONUS == 110           \* 1.1, in percent
LINE_RELOAD_BONUS == 90              \* 0.9, in percent
LINE_MOVEMENT_PENALTY == 90          \* 0.9, in percent
LINE_DAMAGE_BONUS == 120             \* 1.2, in percent
COLUMN_MOVEMENT_BONUS == 130         \* 1.3, in percent
COLUMN_VULNERABILITY == 150          \* 1.5, in percent
COLUMN_DAMAGE_BONUS == 130           \* 1.3, in percent
SQUARE_CAVALRY_DEFENSE == 3
SQUARE_RELOAD_BONUS == 85            \* 0.85, in percent
EXHAUSTION_MAX == 100
EXHAUSTION_MOVEMENT_RATE == 100      \* 0.1 point/s, in 1/1000 point per second
EXHAUSTION_COLUMN_RATE == 50         \* 0.05 point/s
EXHAUSTION_COMBAT_RATE == 5000       \* 5.0 points, in 1/1000 point
EXHAUSTION_RECOVERY_RATE == 80       \* 0.08 point/s
EXHAUSTION_SPEED_PENALTY == 5        \* 0.5: ppm of multiplier per 1/1000 point
EXHAUSTION_ACCURACY_PENALTY == 3     \* 0.3
EXHAUSTION_RELOAD_PENALTY == 5       \* 0.5
MAX_DELTA_TIME == 100                \* the 0.1 s clamp of the game loop, in ms
SYNC_INTERVAL == 66                  \* 1/15 s, in ms (rounded down)
THROTTLE_RATE == 15
DEPLOYMENT_WIDTH == 300              \* CANVAS_WIDTH * 0.25

Teams == {"RED", "BLUE"}
IsRanged(type) == type = "INFANTRY" \/ type = "CANNON"

Min(a, b) == IF a < b THEN a ELSE b
Max(a, b) == IF a > b THEN a ELSE b
Abs(a) == IF a < 0 THEN 0 - a ELSE a
Range(s) == {s[i] : i \in 1..Len(s)}

(***************************************************************************)
(* Unit.js: the constructor.  Fields a CAVALRY unit does not have in the   *)
(* source (fireRange, isReloading, reloadProgress, reloadDuration,        *)
(* canFire, currentTarget: undefined, all read only after a type test)    *)
(* hold the falsy values FALSE, 0 and NoRef.                              *)
(***************************************************************************)
EntityCountOf(type) ==
    CASE type = "INFANTRY" -> INFANTRY_ENTITY_COUNT * EntityScale
      [] type = "CAVALRY" -> CAVALRY_ENTITY_COUNT * EntityScale
      [] OTHER -> CANNON_ENTITY_COUNT * EntityScale

BaseMaxSpeedOf(type) ==
    CASE type = "INFANTRY" -> INFANTRY_MAX_SPEED
      [] type = "CAVALRY" -> CAVALRY_MAX_SPEED
      [] OTHER -> CANNON_MAX_SPEED

CollisionRadiusOf(type) ==
    CASE type = "INFANTRY" -> INFANTRY_COLLISION_RADIUS
      [] type = "CAVALRY" -> CAVALRY_COLLISION_RADIUS
      [] OTHER -> CANNON_COLLISION_RADIUS

BaseDamageOf(type) ==
    CASE type = "INFANTRY" -> INFANTRY_BASE_DAMAGE
      [] type = "CAVALRY" -> CAVALRY_BASE_DAMAGE
      [] OTHER -> CANNON_BASE_DAMAGE

MeleeDamageOf(type) ==
    CASE type = "INFANTRY" -> INFANTRY_MELEE_DAMAGE
      [] type = "CAVALRY" -> CAVALRY_MELEE_DAMAGE
      [] OTHER -> CANNON_MELEE_DAMAGE

FireRangeOf(type) ==
    CASE type = "INFANTRY" -> INFANTRY_FIRE_RANGE
      [] type = "CANNON" -> CANNON_FIRE_RANGE
      [] OTHER -> 0

ReloadDurationOf(type) ==
    CASE type = "INFANTRY" -> INFANTRY_RELOAD_DURATION
      [] type = "CANNON" -> CANNON_RELOAD_DURATION
      [] OTHER -> 0

NewUnit(id, type, team, x, y) ==
    [id |-> id, type |-> type, team |-> team,
     x |-> x, y |-> y, vx |-> 0, vy |-> 0, angle |-> 0,
     targetX |-> Null, targetY |-> Null,
     entityCount |-> EntityCountOf(type),
     maxSpeed |-> BaseMaxSpeedOf(type),
     isReloading |-> FALSE, reloadProgress |-> 0,
     reloadDuration |-> ReloadDurationOf(type),
     canFire |-> IsRanged(type), currentTarget |-> NoRef,
     formation |-> "NONE",
     fireRateBonus |-> 100, accuracyBonus |-> 100, movementBonus |-> 100,
     movementPenalty |-> 100, vulnerabilityMultiplier |-> 100,
     damageBonus |-> 100, directionalDefense |-> FALSE, cavalryDefense |-> 1,
     exhaustion |-> 0,
     speedMultiplier |-> Million, accuracyMultiplier |-> Million,
     reloadMultiplier |-> Million,
     isSelected |-> FALSE, speed |-> 0,
     isMeleeLocked |-> FALSE, wasMeleeLocked |-> FALSE, isFleeing |-> FALSE]

\* setFormation without the reset of the modifiers
SetFormationWithoutReset(u, formationType) ==
    LET r == [u EXCEPT !.formation = formationType]
    IN CASE formationType = "LINE" ->
              [r EXCEPT !.accuracyBonus = LINE_ACCURACY_BONUS,
                        !.fireRateBonus = LINE_RELOAD_BONUS,
                        !.movementPenalty = LINE_MOVEMENT_PENALTY,
                        !.damageBonus = LINE_DAMAGE_BONUS]
         [] formationType = "COLUMN" ->
              [r EXCEPT !.movementBonus = COLUMN_MOVEMENT_BONUS,
                        !.vulnerabilityMultiplier = COLUMN_VULNERABILITY,
                        !.damageBonus = COLUMN_DAMAGE_BONUS]
         [] formationType = "SQUARE" ->
              [r EXCEPT !.maxSpeed = 0,
                        !.directionalDefense = TRUE,
                        !.cavalryDefense = SQUARE_CAVALRY_DEFENSE,
                        !.fireRateBonus = SQUARE_RELOAD_BONUS]
         [] OTHER -> r

(***************************************************************************)
(* Unit.setFormation: the modifiers are reset and set from the formation.  *)
(***************************************************************************)
SetFormation(u, formationType) ==
    LET r == [u EXCEPT !.formation = formationType,
                       !.fireRateBonus = 100, !.accuracyBonus = 100,
                       !.movementBonus = 100, !.movementPenalty = 100,
                       !.vulnerabilityMultiplier = 100, !.damageBonus = 100,
                       !.directionalDefense = FALSE, !.cavalryDefense = 1,
                       !.maxSpeed = BaseMaxSpeedOf(u.type)]
    IN CASE formationType = "LINE" ->
              [r EXCEPT !.accuracyBonus = LINE_ACCURACY_BONUS,
                        !.fireRateBonus = LINE_RELOAD_BONUS,
                        !.movementPenalty = LINE_MOVEMENT_PENALTY,
                        !.damageBonus = LINE_DAMAGE_BONUS]
         [] formationType = "COLUMN" ->
              [r EXCEPT !.movementBonus = COLUMN_MOVEMENT_BONUS,
                        !.vulnerabilityMultiplier = COLUMN_VULNERABILITY,
                        !.damageBonus = COLUMN_DAMAGE_BONUS]
         [] formationType = "SQUARE" ->
              [r EXCEPT !.maxSpeed = 0,
                        !.directionalDefense = TRUE,
                        !.cavalryDefense = SQUARE_CAVALRY_DEFENSE,
                        !.fireRateBonus = SQUARE_RELOAD_BONUS]
         [] OTHER -> r

\* takeDamage without the floor at 0
TakeDamageUnfloored(u, amount) ==
    [u EXCEPT !.entityCount = u.entityCount - amount]

TakeDamage(u, amount) ==
    [u EXCEPT !.entityCount = IF u.entityCount - amount < 0 THEN 0
                              ELSE u.entityCount - amount]

IsDead(u) == u.entityCount <= 0

(***************************************************************************)
(* The object heap of one GameEngine.                                      *)
(***************************************************************************)
Refs(g) == DOMAIN g.objs
Obj(g, r) == g.objs[r]
FreshRef(g) == CHOOSE r \in 1..(Cardinality(Refs(g)) + 1) : r \notin Refs(g)
PutObj(g, r, u) ==
    [g EXCEPT !.objs = [q \in Refs(g) \cup {r} |-> IF q = r THEN u ELSE g.objs[q]]]
UnitIds(g) == {Obj(g, g.units[i]).id : i \in 1..Len(g.units)}

\* Objects no reference reaches any more are dropped; an object that has left
\* the registry keeps no target (the source never reads it again).
Collect(g) ==
    LET inReg == Range(g.units)
        live == (inReg \cup Range(g.selectedUnits)
                   \cup {g.objs[r].currentTarget : r \in inReg}) \ {NoRef}
    IN [g EXCEPT !.objs = [r \in live \cap Refs(g) |->
                             IF r \in inReg THEN g.objs[r]
                             ELSE [g.objs[r] EXCEPT !.currentTarget = NoRef]]]

(***************************************************************************)
(* GameEngine: constructor, createUnit, restart.                           *)
(***************************************************************************)
\* issuedLast and issuedPrevMax are history: the id the last createUnit call
\* returned and the greatest id returned by the calls before it.  threw,
\* volleys, impacts and melees are the log of one update call (an exception
\* thrown, the volleys resolved, the projectile impacts, the melee rounds);
\* between calls they are empty.
NoObjs == [r \in {} |-> 0]

NewGame ==
    [objs |-> NoObjs, units |-> <<>>, selectedUnits |-> <<>>, projectiles |-> <<>>,
     gameTime |-> 0, gameOver |-> FALSE, winner |-> "none", nextUnitId |-> 0,
     issuedLast |-> Null, issuedPrevMax |-> Null,
     audioManager |-> TRUE,
     threw |-> FALSE, volleys |-> <<>>, impacts |-> <<>>, melees |-> <<>>]

\* createUnit: the new Unit takes the counter's value as id, the counter is
\* incremented, the unit is appended to the registry.
CreateUnit(g, type, team, x, y) ==
    LET r == FreshRef(g)
        g1 == PutObj(g, r, NewUnit(g.nextUnitId, type, team, x, y))
    IN [g1 EXCEPT !.units = Append(g.units, r), !.nextUnitId = g.nextUnitId + 1,
                  !.issuedLast = g.nextUnitId,
                  !.issuedPrevMax = Max(g.issuedPrevMax, g.issuedLast)]

LastCreated(g) == g.units[Len(g.units)]

Restart(g) ==
    [g EXCEPT !.objs = NoObjs, !.units = <<>>, !.selectedUnits = <<>>,
              !.projectiles = <<>>, !.gameTime = 0, !.gameOver = FALSE,
              !.winner = "none", !.nextUnitId = 0]

(***************************************************************************)
(* GameStateSync.js.  A message carries plain data (JSON): numbers,        *)
(* strings, booleans and null survive the wire unchanged; an object        *)
(* reference does not, which is why the target travels as an id.           *)
(* timestamp and the projectile's random id are not modelled (no receiver  *)
(* reads them).                                                            *)
(***************************************************************************)
SerializeUnit(g, r) ==
    LET u == Obj(g, r)
    IN [id |-> u.id, type |-> u.type, team |-> u.team,
        x |-> u.x, y |-> u.y, vx |-> u.vx, vy |-> u.vy, angle |-> u.angle,
        targetX |-> u.targetX, targetY |-> u.targetY,
        entityCount |-> u.entityCount, formation |-> u.formation,
        isSelected |-> u.isSelected, isReloading |-> u.isReloading,
        reloadProgress |-> u.reloadProgress, exhaustion |-> u.exhaustion,
        isMeleeLocked |-> u.isMeleeLocked,
        currentTargetId |-> IF u.currentTarget # NoRef
                            THEN Obj(g, u.currentTarget).id ELSE Null]

\* proj.shooter is a field no projectile has: it is serialized as null.
SerializeProjectile(pr) ==
    [x |-> pr.x, y |-> pr.y, vx |-> pr.vx, vy |-> pr.vy,
     damage |-> pr.damage, team |-> pr.team, shooter |-> Null]

SerializeGameState(g) ==
    [type |-> "GAME_STATE_SYNC", gameTime |-> g.gameTime, gameOver |-> g.gameOver,
     winner |-> g.winner,
     units |-> [i \in 1..Len(g.units) |-> SerializeUnit(g, g.units[i])],
     projectiles |-> [i \in 1..Len(g.projectiles) |->
                        SerializeProjectile(g.projectiles[i])]]

\* Array.find over the registry: the first unit with the id, or null.
FindUnit(g, id) ==
    IF \E i \in 1..Len(g.units) : Obj(g, g.units[i]).id = id
    THEN g.units[CHOOSE i \in 1..Len(g.units) :
                    /\ Obj(g, g.units[i]).id = id
                    /\ \A j \in 1..(i - 1) : Obj(g, g.units[j]).id # id]
    ELSE NoRef

\* updateUnit
UpdateUnit(g, r, ru) ==
    LET u == Obj(g, r)
        u1 == [u EXCEPT !.x = ru.x, !.y = ru.y, !.vx = ru.vx, !.vy = ru.vy,
                        !.angle = ru.angle,
                        !.targetX = ru.targetX, !.targetY = ru.targetY,
                        !.entityCount = ru.entityCount,
                        !.isReloading = ru.isReloading,
                        !.reloadProgress = ru.reloadProgress,
                        !.exhaustion = ru.exhaustion,
                        !.isMeleeLocked = ru.isMeleeLocked]
        u2 == IF u1.formation # ru.formation THEN SetFormation(u1, ru.formation)
              ELSE u1
        u3 == [u2 EXCEPT !.isSelected = ru.isSelected,
                         !.currentTarget =
                             IF ru.currentTargetId # Null
                             THEN FindUnit(g, ru.currentTargetId) ELSE NoRef]
    IN PutObj(g, r, u3)

\* The Map mergeUnits builds from the registry: a later unit with the same id
\* replaces an earlier one.
LocalUnitsMap(g) ==
    [id \in UnitIds(g) |->
        g.units[CHOOSE i \in 1..Len(g.units) :
                   /\ Obj(g, g.units[i]).id = id
                   /\ \A j \in (i + 1)..Len(g.units) : Obj(g, g.units[j]).id # id]]

RECURSIVE MergeLoop(_, _, _, _)
MergeLoop(g, map, remoteUnits, i) ==
    IF i > Len(remoteUnits) THEN g
    ELSE LET ru == remoteUnits[i]
         IN IF ru.id \in DOMAIN map
            THEN MergeLoop(UpdateUnit(g, map[ru.id], ru), map, remoteUnits, i + 1)
            ELSE LET g1 == CreateUnit(g, ru.type, ru.team, ru.x, ru.y)
                     r == LastCreated(g1)
                     g2 == PutObj(g1, r, [Obj(g1, r) EXCEPT !.id = ru.id])
                 IN MergeLoop(UpdateUnit(g2, r, ru), map, remoteUnits, i + 1)

\* mergeUnits without its final filter
KeepAll(g, seenIds) == g

KeepSeen(g, seenIds) ==
    [g EXCEPT !.units = SelectSeq(g.units, LAMBDA r : Obj(g, r).id \in seenIds)]

\* mergeUnits that drops the units the snapshot does not list and leaves the
\* others as they are
MergeUnitsWithoutUpdate(g, remoteUnits) ==
    KeepSeen(g, {remoteUnits[i].id : i \in 1..Len(remoteUnits)})

MergeUnits(g, remoteUnits) ==
    LET seenIds == {remoteUnits[i].id : i \in 1..Len(remoteUnits)}
    IN KeepSeen(MergeLoop(g, LocalUnitsMap(g), remoteUnits, 1), seenIds)

\* mergeProjectiles replaces the registry by object literals: these are no
\* Projectile instances (startX, startY, range and radius are undefined, here
\* Null, and there is no update method).
MergeProjectiles(g, remoteProjectiles) ==
    [g EXCEPT !.projectiles =
        [i \in 1..Len(remoteProjectiles) |->
            LET rp == remoteProjectiles[i]
            IN [class |-> "Object", x |-> rp.x, y |-> rp.y, vx |-> rp.vx,
                vy |-> rp.vy, damage |-> rp.damage, team |-> rp.team,
                startX |-> Null, startY |-> Null, range |-> Null, radius |-> Null]]]

MergeRemoteState(g, remoteState) ==
    LET g1 == [g EXCEPT !.gameTime = remoteState.gameTime,
                        !.gameOver = remoteState.gameOver,
                        !.winner = remoteState.winner]
    IN Collect(MergeProjectiles(MergeUnits(g1, remoteState.units),
                                remoteState.projectiles))

SerializeDeploymentEvent(g, r) ==
    LET u == Obj(g, r)
    IN [type |-> "DEPLOY_UNIT",
        unit |-> [id |-> u.id, type |-> u.type, team |-> u.team,
                  x |-> u.x, y |-> u.y, angle |-> u.angle]]

\* applyDeploymentEvent without the test for an existing unit
ApplyDeploymentEventUnchecked(g, event) ==
    LET g1 == CreateUnit(g, event.unit.type, event.unit.team,
                         event.unit.x, event.unit.y)
        r == LastCreated(g1)
    IN PutObj(g1, r, [Obj(g1, r) EXCEPT !.id = event.unit.id,
                                        !.angle = event.unit.angle])

\* applyDeploymentEvent: a unit with the event's id exists: warn and return.
ApplyDeploymentEvent(g, event) ==
    IF FindUnit(g, event.unit.id) # NoRef THEN g
    ELSE LET g1 == CreateUnit(g, event.unit.type, event.unit.team,
                              event.unit.x, event.unit.y)
             r == LastCreated(g1)
         IN PutObj(g1, r, [Obj(g1, r) EXCEPT !.id = event.unit.id,
                                             !.angle = event.unit.angle])

(***************************************************************************)
(* Arithmetic of the simulation.  Angles are multiples of 15 degrees; the  *)
(* turn rates of 0.8, 0.5 and 0.3 radians per frame become 45, 30 and 15   *)
(* degrees.  Cos1000 is 1000 * cos.  Quotients are truncated toward zero.  *)
(***************************************************************************)
Sign(a) == IF a > 0 THEN 1 ELSE IF a < 0 THEN 0 - 1 ELSE 0
Quot(a, b) == Sign(a) * (Abs(a) \div b)

\* (a + PI) % (2 PI), + 2 PI when negative, - PI: the angle in [-180, 180)
NormDeg(d) == ((d + 180) % 360) - 180

Cos1000(d) ==
    LET Table(b) == CASE b = 0 -> 1000 [] b = 15 -> 966 [] b = 30 -> 866
                      [] b = 45 -> 707 [] b = 60 -> 500 [] b = 75 -> 259
                      [] OTHER -> 0
        Signed(a) == IF a > 90 THEN 0 - Table(180 - a) ELSE Table(a)
    IN Signed(Abs(NormDeg(d)))

Sin1000(d) == Cos1000(d - 90)

Dirs == {15 * k - 165 : k \in 0..23}

\* Math.atan2(dy, dx), to the nearest multiple of 15 degrees in (-180, 180]
Atan2Deg(dy, dx) ==
    LET Along(t) == dx * Cos1000(t) + dy * Sin1000(t)
    IN IF dx = 0 /\ dy = 0 THEN 0
       ELSE CHOOSE t \in Dirs : \A q \in Dirs : Along(t) >= Along(q)

RECURSIVE SqrtSearch(_, _, _)
SqrtSearch(n, lo, hi) ==
    IF lo >= hi THEN lo
    ELSE LET mid == (lo + hi + 1) \div 2
         IN IF mid * mid <= n THEN SqrtSearch(n, mid, hi)
            ELSE SqrtSearch(n, lo, mid - 1)

\* floor(Math.sqrt(n)) for 0 <= n < 2048 * 2048
ISqrt(n) == SqrtSearch(n, 0, 2047)

DistSq(ax, ay, bx, by) == (bx - ax) * (bx - ax) + (by - ay) * (by - ay)

TurnRateOf(type) ==
    CASE type = "INFANTRY" -> 45 [] type = "CAVALRY" -> 30 [] OTHER -> 15

Clamp(lo, hi, v) == Max(lo, Min(hi, v))

(***************************************************************************)
(* Unit.update(deltaTime), deltaTime in ms.                                *)
(***************************************************************************)
EffectiveMaxSpeed(u, distSq) ==
    LET base == (u.maxSpeed * u.movementBonus * u.movementPenalty) \div 10000
        tired == (base * (u.speedMultiplier \div 1000)) \div 1000
    IN IF distSq > 50 * 50 THEN (tired * 3) \div 2 ELSE tired

UnitUpdate(u, dt) ==
    IF u.isMeleeLocked \/ u.formation = "SQUARE"
    THEN [u EXCEPT !.speed = 0, !.vx = 0, !.vy = 0]
    ELSE
      LET \* keep the unit in bounds
          Bounded(moved, radius) ==
              [moved EXCEPT !.x = Clamp(radius, CANVAS_WIDTH - radius, moved.x),
                            !.y = Clamp(radius, CANVAS_HEIGHT - radius, moved.y)]
          Stepped(ang, spd, vx, vy) ==
              [u EXCEPT !.angle = ang, !.speed = spd, !.vx = vx, !.vy = vy,
                        !.x = u.x + vx, !.y = u.y + vy]
          Advance(ang, spd) ==
              Stepped(ang, spd, Quot(Cos1000(ang) * spd * dt, Million),
                      Quot(Sin1000(ang) * spd * dt, Million))
          Turn(diff, d2) ==
              Advance(u.angle + Sign(diff) * Min(Abs(diff), TurnRateOf(u.type)),
                      Min(EffectiveMaxSpeed(u, d2), u.speed + (200 * dt) \div 1000))
          Toward(dx, dy, d2) ==
              IF d2 > 5 * 5
              THEN Turn(NormDeg(Atan2Deg(dy, dx) - u.angle), d2)
              ELSE [u EXCEPT !.targetX = Null, !.targetY = Null,
                             !.speed = Max(0, u.speed - (100 * dt) \div 1000)]
          Approach(dx, dy) == Toward(dx, dy, dx * dx + dy * dy)
      IN Bounded(IF u.targetX # Null /\ u.targetY # Null
                 THEN Approach(u.targetX - u.x, u.targetY - u.y)
                 ELSE [u EXCEPT !.speed = Max(0, u.speed - (100 * dt) \div 1000),
                                !.vx = Quot(u.vx * 9, 10), !.vy = Quot(u.vy * 9, 10)],
                 CollisionRadiusOf(u.type))

(***************************************************************************)
(* ReloadSystem.js                                                         *)
(***************************************************************************)
\* startReload that leaves the unit ready to fire
StartReloadStillReady(u, reloadDuration) ==
    IF ~IsRanged(u.type) THEN u
    ELSE [u EXCEPT !.reloadProgress = 0, !.reloadDuration = reloadDuration]

\* startReload(unit, reloadDuration): the duration passed in is multiplied by
\* the formation and exhaustion modifiers and stored in unit.reloadDuration.
StartReload(u, reloadDuration) ==
    IF ~IsRanged(u.type) THEN u
    ELSE LET byFormation == (reloadDuration * u.fireRateBonus) \div 100
             effective == (byFormation * (u.reloadMultiplier \div 1000)) \div 1000
         IN [u EXCEPT !.isReloading = TRUE, !.canFire = FALSE,
                      !.reloadProgress = 0, !.reloadDuration = effective]

CompleteReload(u) ==
    IF ~IsRanged(u.type) THEN u
    ELSE [u EXCEPT !.isReloading = FALSE, !.canFire = TRUE, !.reloadProgress = 0]

\* updateReload: progress += deltaTime / reloadDuration, complete at >= 1.
\* A duration of 0 makes the quotient Infinity (or NaN): the reload completes
\* at once when deltaTime > 0.
UpdateReload(u, dt) ==
    IF ~IsRanged(u.type) \/ ~u.isReloading THEN u
    ELSE LET progress == IF u.reloadDuration > 0
                         THEN u.reloadProgress + (dt * Million) \div u.reloadDuration
                         ELSE Million
         IN IF progress >= Million THEN CompleteReload(u)
            ELSE [u EXCEPT !.reloadProgress = progress]

(***************************************************************************)
(* ExhaustionSystem (exhaustion in 1/1000 point, multipliers in ppm)       *)
(***************************************************************************)
ApplyExhaustionPenalties(u) ==
    [u EXCEPT !.speedMultiplier = Million - u.exhaustion * EXHAUSTION_SPEED_PENALTY,
              !.accuracyMultiplier = Million - u.exhaustion * EXHAUSTION_ACCURACY_PENALTY,
              !.reloadMultiplier = Million + u.exhaustion * EXHAUSTION_RELOAD_PENALTY]

ExhaustionUpdate(u, dt) ==
    LET rate == IF u.formation = "COLUMN" THEN EXHAUSTION_COLUMN_RATE
                ELSE EXHAUSTION_MOVEMENT_RATE
        e == IF u.speed > 10
             THEN Min(EXHAUSTION_MAX * 1000, u.exhaustion + (rate * dt) \div 1000)
             ELSE Max(0, u.exhaustion - (EXHAUSTION_RECOVERY_RATE * dt) \div 1000)
    IN ApplyExhaustionPenalties([u EXCEPT !.exhaustion = e])

\* addCombatExhaustion without Math.min
AddCombatExhaustionUnclamped(u) ==
    ApplyExhaustionPenalties(
        [u EXCEPT !.exhaustion = u.exhaustion + EXHAUSTION_COMBAT_RATE])

AddCombatExhaustion(u) ==
    ApplyExhaustionPenalties(
        [u EXCEPT !.exhaustion = Min(EXHAUSTION_MAX * 1000,
                                     u.exhaustion + EXHAUSTION_COMBAT_RATE)])

(***************************************************************************)
(* Angles between units.  A relative angle is never computed: the vector   *)
(* to the other unit is rotated into the frame of the facing unit and      *)
(* compared with the tangent of the bound.                                 *)
(***************************************************************************)
\* (dx, dy) rotated by -deg, in 1/100 pixel
RotX(dx, dy, deg) == Quot(dx * Cos1000(deg) + dy * Sin1000(deg), 10)
RotY(dx, dy, deg) == Quot(dy * Cos1000(deg) - dx * Sin1000(deg), 10)

TAN_15 == 268        \* 1000 * tan(15 degrees)
TAN_60 == 1732       \* 1000 * tan(60 degrees)

\* |normalize(atan2(dy, dx) - deg)| <= bound, bound in {0, 15, 45, 90, 180}
AngleWithin(dx, dy, deg, bound) ==
    LET Within(rx, ry) ==
            CASE bound >= 180 -> TRUE
              [] bound = 90 -> rx >= 0
              [] bound = 45 -> rx > 0 /\ Abs(ry) <= rx
              [] bound = 15 -> rx > 0 /\ Abs(ry) * 1000 <= TAN_15 * rx
              [] OTHER -> rx > 0 /\ ry = 0
    IN IF dx = 0 /\ dy = 0 THEN Within(Cos1000(0 - deg), Sin1000(0 - deg))
       ELSE Within(RotX(dx, dy, deg), RotY(dx, dy, deg))

\* Unit.getFireArc, halved, in degrees
HalfFireArc(u) ==
    CASE u.type = "CANNON" -> 15
      [] u.type # "INFANTRY" -> 0
      [] u.formation = "LINE" -> 45
      [] u.formation = "COLUMN" -> 45
      [] u.formation = "SQUARE" -> 180
      [] OTHER -> 90

\* CombatSystem.isInFireArc
IsInFireArc(shooter, target) ==
    AngleWithin(target.x - shooter.x, target.y - shooter.y, shooter.angle,
                HalfFireArc(shooter))

\* CombatSystem.calculateDirectionalMultiplier
REAR_MULTIPLIER == 3
FLANK_MULTIPLIER == 2
FRONT_MULTIPLIER == 1

\* the multiplier of the facing alone, whatever the defender's formation
CalculateDirectionalMultiplierByFacing(attacker, defender) ==
    LET Sector(rx, ry) ==
            IF rx > 0 /\ Abs(ry) * 1000 < TAN_60 * rx THEN REAR_MULTIPLIER
            ELSE IF rx >= 0 \/ Abs(ry) * 1000 > TAN_60 * Abs(rx)
                 THEN FLANK_MULTIPLIER
                 ELSE FRONT_MULTIPLIER
        From(dx, dy) ==
            IF dx = 0 /\ dy = 0
            THEN Sector(Cos1000(0 - defender.angle), Sin1000(0 - defender.angle))
            ELSE Sector(RotX(dx, dy, defender.angle), RotY(dx, dy, defender.angle))
    IN From(defender.x - attacker.x, defender.y - attacker.y)

CalculateDirectionalMultiplier(attacker, defender) ==
    IF defender.directionalDefense THEN FRONT_MULTIPLIER
    ELSE LET Sector(rx, ry) ==
                 IF rx > 0 /\ Abs(ry) * 1000 < TAN_60 * rx THEN REAR_MULTIPLIER
                 ELSE IF rx >= 0 \/ Abs(ry) * 1000 > TAN_60 * Abs(rx)
                      THEN FLANK_MULTIPLIER
                      ELSE FRONT_MULTIPLIER
             From(dx, dy) ==
                 IF dx = 0 /\ dy = 0
                 THEN Sector(Cos1000(0 - defender.angle), Sin1000(0 - defender.angle))
                 ELSE Sector(RotX(dx, dy, defender.angle), RotY(dx, dy, defender.angle))
         IN From(defender.x - attacker.x, defender.y - attacker.y)

(***************************************************************************)
(* LOSSystem.js.  No terrain is passed by any caller: only friendly units  *)
(* block.                                                                  *)
(***************************************************************************)
\* circleLineIntersection: the distance from (cx, cy) to the segment is
\* at most radius
CircleLineIntersection(cx, cy, radius, x1, y1, x2, y2) ==
    LET Inside(len2, len, over) ==
            IF over <= 0 THEN TRUE
            ELSE IF over >= radius THEN FALSE
            ELSE 2 * radius * len * over + over * over
                     <= radius * radius * (len2 - len * len)
        Near(len2, len, cross) == Inside(len2, len, cross - radius * len)
        Onto(dx, dy, len2, dot, cross) ==
            IF len2 = 0 THEN FALSE
            ELSE IF dot <= 0 THEN dx * dx + dy * dy <= radius * radius
            ELSE IF dot >= len2 THEN DistSq(cx, cy, x2, y2) <= radius * radius
            ELSE Near(len2, ISqrt(len2), cross)
        Along(dx, dy, lx, ly) ==
            Onto(dx, dy, lx * lx + ly * ly, dx * lx + dy * ly, Abs(dx * ly - dy * lx))
    IN Along(cx - x1, cy - y1, x2 - x1, y2 - y1)

\* checkFriendlyBlock: some living unit of the shooter's team, whose id is
\* neither the shooter's nor the target's, lies in the bounding box of the ray
\* (widened by the INFANTRY radius) and touches the ray.
CheckFriendlyBlock(g, fromUnit, toUnit) ==
    LET minX == Min(fromUnit.x, toUnit.x) - INFANTRY_COLLISION_RADIUS
        maxX == Max(fromUnit.x, toUnit.x) + INFANTRY_COLLISION_RADIUS
        minY == Min(fromUnit.y, toUnit.y) - INFANTRY_COLLISION_RADIUS
        maxY == Max(fromUnit.y, toUnit.y) + INFANTRY_COLLISION_RADIUS
    IN \E i \in 1..Len(g.units) :
          LET f == Obj(g, g.units[i])
          IN /\ f.team = fromUnit.team
             /\ f.id # fromUnit.id
             /\ f.id # toUnit.id
             /\ ~IsDead(f)
             /\ f.x >= minX /\ f.x <= maxX
             /\ f.y >= minY /\ f.y <= maxY
             /\ CircleLineIntersection(f.x, f.y, CollisionRadiusOf(f.type),
                                       fromUnit.x, fromUnit.y, toUnit.x, toUnit.y)

\* checkLOS(...).hasLOS
HasLOS(g, fromUnit, toUnit) == ~CheckFriendlyBlock(g, fromUnit, toUnit)

(***************************************************************************)
(* GameEngine: target acquisition (step 4 of update).                      *)
(***************************************************************************)
InRange(unit, target) ==
    DistSq(unit.x, unit.y, target.x, target.y)
        <= FireRangeOf(unit.type) * FireRangeOf(unit.type)

\* isTargetValid
IsTargetValid(g, unit, target) ==
    /\ InRange(unit, target)
    /\ IsInFireArc(unit, target)
    /\ HasLOS(g, unit, target)

\* acquireTarget: the nearest living enemy in range, in arc and in sight;
\* the first in registry order among equally near ones.
Acquirable(g, unit, i) ==
    LET e == Obj(g, g.units[i])
    IN /\ e.team # unit.team
       /\ ~IsDead(e)
       /\ InRange(unit, e)
       /\ IsInFireArc(unit, e)
       /\ HasLOS(g, unit, e)

AcquireTarget(g, unit) ==
    IF ~IsRanged(unit.type) THEN NoRef
    ELSE LET D(i) == DistSq(unit.x, unit.y, Obj(g, g.units[i]).x, Obj(g, g.units[i]).y)
             cand == {i \in 1..Len(g.units) : Acquirable(g, unit, i)}
         IN IF cand = {} THEN NoRef
            ELSE g.units[CHOOSE i \in cand :
                            \A j \in cand : D(i) < D(j) \/ (D(i) = D(j) /\ i <= j)]

\* Math.floor(gameTime * 60), gameTime in ms
Frame(g) == (g.gameTime * 60) \div 1000

\* the body of the step 4 loop for one unit
TargetStep(g, u) ==
    IF ~IsRanged(u.type) \/ IsDead(u) THEN u
    ELSE LET turn == (u.id + Frame(g)) % THROTTLE_RATE = 0
             lost == /\ u.currentTarget # NoRef
                     /\ \/ IsDead(Obj(g, u.currentTarget))
                        \/ ~IsTargetValid(g, u, Obj(g, u.currentTarget))
         IN IF lost \/ turn THEN [u EXCEPT !.currentTarget = AcquireTarget(g, u)]
            ELSE u

(***************************************************************************)
(* Projectile.js and step 4b of update.  Velocities in pixels/second,      *)
(* damage in 1/100 entity.                                                 *)
(***************************************************************************)
PROJECTILE_SPEED == 300
PROJECTILE_RADIUS == 4
SPAWN_OFFSET == 20
COS_5 == 996         \* 1000 * cos(5 degrees)
SIN_5 == 87          \* 1000 * sin(5 degrees)

\* new Projectile(x, y, angle, 300, damage, team, range), the angle given by
\* the vector (dx, dy) turned by jitter * 5 degrees, jitter in {-1, 0, 1}
NewProjectile(x, y, dx, dy, jitter, damage, team, range) ==
    LET Aimed(jx, jy) ==
            [class |-> "Projectile",
             x |-> x + Quot(SPAWN_OFFSET * jx, 1000),
             y |-> y + Quot(SPAWN_OFFSET * jy, 1000),
             startX |-> x, startY |-> y,
             vx |-> Quot(PROJECTILE_SPEED * jx, 1000),
             vy |-> Quot(PROJECTILE_SPEED * jy, 1000),
             damage |-> damage, team |-> team, range |-> range,
             radius |-> PROJECTILE_RADIUS]
        Jittered(ux, uy) ==
            IF jitter = 0 THEN Aimed(ux, uy)
            ELSE Aimed(Quot(ux * COS_5 - jitter * uy * SIN_5, 1000),
                       Quot(uy * COS_5 + jitter * ux * SIN_5, 1000))
        Normalised(d) ==
            IF d = 0 THEN Jittered(1000, 0)
            ELSE Jittered(Quot(dx * 1000, d), Quot(dy * 1000, d))
    IN Normalised(ISqrt(dx * dx + dy * dy))

\* Projectile.update: the moved projectile
ProjectileMoved(pr, dt) ==
    [pr EXCEPT !.x = pr.x + Quot(pr.vx * dt, 1000), !.y = pr.y + Quot(pr.vy * dt, 1000)]

\* Projectile.update: isDead afterwards
ProjectileSpent(pr) ==
    \/ DistSq(pr.startX, pr.startY, pr.x, pr.y) > pr.range * pr.range
    \/ pr.x < 0 \/ pr.x > CANVAS_WIDTH \/ pr.y < 0 \/ pr.y > CANVAS_HEIGHT

\* CombatSystem.resolveProjectileHit: the damage; falloff is the random
\* factor 0.2 + random * 0.8, in percent
ProjectileDamage(pr, target, falloff) ==
    LET far == 25 * DistSq(pr.startX, pr.startY, pr.x, pr.y) > 9 * pr.range * pr.range
        d1 == IF far THEN (pr.damage * falloff) \div 100 ELSE pr.damage
        d2 == IF target.formation = "LINE" \/ target.formation = "COLUMN"
              THEN (d1 * 3) \div 2 ELSE d1
    IN IF target.type = "CANNON" THEN d2 * 3 ELSE d2

RemoveAt(s, i) == [k \in 1..(Len(s) - 1) |-> IF k < i THEN s[k] ELSE s[k + 1]]

\* the first hostile living unit the projectile touches, or NoRef
ProjectileVictim(g, pr) ==
    LET touched == {i \in 1..Len(g.units) :
                      LET u == Obj(g, g.units[i])
                          reach == CollisionRadiusOf(u.type) + pr.radius
                      IN /\ u.team # pr.team
                         /\ ~IsDead(u)
                         /\ DistSq(pr.x, pr.y, u.x, u.y) < reach * reach}
    IN IF touched = {} THEN NoRef
       ELSE g.units[CHOOSE i \in touched : \A j \in touched : i <= j]

\* step 4b with balls that fly on through the unit they hit
RECURSIVE ProjectileLoopThrough(_, _, _, _)
ProjectileLoopThrough(g, i, dt, falloff) ==
    IF i < 1 THEN g
    ELSE IF g.projectiles[i].class # "Projectile" THEN [g EXCEPT !.threw = TRUE]
    ELSE
      LET Hit(pr, victim, t, dmg) ==
              [PutObj(g, victim, TakeDamage(t, dmg))
                 EXCEPT !.projectiles[i] = pr,
                        !.impacts = Append(g.impacts,
                            [target |-> t.id, before |-> t.entityCount,
                             damage |-> dmg, ball |-> pr, victim |-> t])]
          Struck(pr, victim, t) == Hit(pr, victim, t, ProjectileDamage(pr, t, falloff))
          Flew(pr, victim) ==
              IF ProjectileSpent(pr)
              THEN [g EXCEPT !.projectiles = RemoveAt(g.projectiles, i)]
              ELSE IF victim # NoRef THEN Struck(pr, victim, Obj(g, victim))
              ELSE [g EXCEPT !.projectiles[i] = pr]
          Moved(pr) == Flew(pr, ProjectileVictim(g, pr))
      IN ProjectileLoopThrough(Moved(ProjectileMoved(g.projectiles[i], dt)),
                               i - 1, dt, falloff)

\* The loop of step 4b, from the last projectile to the first.  A registry
\* entry that is no Projectile has no update method: the call throws.
RECURSIVE ProjectileLoop(_, _, _, _)
ProjectileLoop(g, i, dt, falloff) ==
    IF i < 1 THEN g
    ELSE IF g.projectiles[i].class # "Projectile" THEN [g EXCEPT !.threw = TRUE]
    ELSE
      LET Hit(pr, victim, t, dmg) ==
              [PutObj(g, victim, TakeDamage(t, dmg))
                 EXCEPT !.projectiles = RemoveAt(g.projectiles, i),
                        !.impacts = Append(g.impacts,
                            [target |-> t.id, before |-> t.entityCount,
                             damage |-> dmg, ball |-> pr, victim |-> t])]
          Struck(pr, victim, t) == Hit(pr, victim, t, ProjectileDamage(pr, t, falloff))
          Flown(pr, victim) ==
              IF ProjectileSpent(pr)
              THEN [g EXCEPT !.projectiles = RemoveAt(g.projectiles, i)]
              ELSE IF victim # NoRef THEN Struck(pr, victim, Obj(g, victim))
              ELSE [g EXCEPT !.projectiles[i] = pr]
          Moved(pr) == Flown(pr, ProjectileVictim(g, pr))
      IN ProjectileLoop(Moved(ProjectileMoved(g.projectiles[i], dt)),
                        i - 1, dt, falloff)

(***************************************************************************)
(* CombatSystem.resolveMusketFire and step 5 of update.  The accuracy      *)
(* lies strictly between 0 and 1 for every distance, formation and         *)
(* exhaustion, so the hit roll can go either way: hit is an input.         *)
(* A cannon spawns its projectile in the branch of the audio manager: the  *)
(* engine of main.js has one, an engine constructed without one resolves   *)
(* the cannon's fire as a musket volley.  The jitter of a cannon is at most *)
(* 0.15 * (1 - accuracy) radians: below half a degree at point blank       *)
(* (accuracy 0.95), above 5 degrees for some draw at any other distance.   *)
(***************************************************************************)
PointBlank(shooter, target) ==
    25 * DistSq(shooter.x, shooter.y, target.x, target.y)
        < FireRangeOf(shooter.type) * FireRangeOf(shooter.type)

ResolveMusketFire(g, sref, tref, hit, jitter) ==
    LET Tired(g1, ref) == PutObj(g1, ref, AddCombatExhaustion(Obj(g1, ref)))
        Volley(g0, shooter, target) ==
            IF shooter.type = "CANNON" /\ g.audioManager
            THEN [g0 EXCEPT !.projectiles = Append(g.projectiles,
                     NewProjectile(shooter.x, shooter.y,
                                   target.x - shooter.x, target.y - shooter.y,
                                   IF PointBlank(shooter, target) THEN 0 ELSE jitter,
                                   BaseDamageOf(shooter.type) * EntityScale,
                                   shooter.team,
                                   (FireRangeOf(shooter.type) * 3) \div 2))]
            ELSE IF ~hit THEN g0
            ELSE Tired(Tired(PutObj(g0, tref,
                                    TakeDamage(target,
                                        BaseDamageOf(shooter.type) * shooter.damageBonus
                                          * CalculateDirectionalMultiplier(shooter, target))),
                             sref),
                       tref)
        Logged(shooter, target) ==
            Volley([g EXCEPT !.volleys = Append(g.volleys,
                       [shooter |-> shooter.id, shooterCount |-> shooter.entityCount,
                        target |-> target.id, targetCount |-> target.entityCount,
                        type |-> shooter.type,
                        hit |-> hit /\ (shooter.type # "CANNON" \/ ~g.audioManager),
                        sref |-> sref, tref |-> tref,
                        field |-> [objs |-> g.objs, units |-> g.units,
                                   audioManager |-> g.audioManager]])],
                   shooter, target)
    IN Logged(Obj(g, sref), Obj(g, tref))

\* The loop of step 5 over the registry; hits is the set of registry
\* positions whose hit roll succeeds.
RECURSIVE FireLoop(_, _, _, _)
FireLoop(g, i, hits, jitter) ==
    IF i > Len(g.units) THEN g
    ELSE LET r == g.units[i]
             u == Obj(g, r)
         IN IF IsRanged(u.type) /\ u.canFire /\ u.currentTarget # NoRef /\ ~u.isReloading
            THEN LET Reloading(g1, u1) ==
                         PutObj(g1, r, StartReload(u1,
                                    IF u1.reloadDuration # 0 THEN u1.reloadDuration
                                    ELSE INFANTRY_RELOAD_DURATION))
                     Fired(g1) == Reloading(g1, Obj(g1, r))
                 IN FireLoop(Fired(ResolveMusketFire(g, r, u.currentTarget,
                                                     i \in hits, jitter)),
                             i + 1, hits, jitter)
            ELSE FireLoop(g, i + 1, hits, jitter)

(***************************************************************************)
(* CombatSystem: melee and push-back; step 6 of update.                    *)
(* Melee damage is computed in 1/10000 entity and applied in 1/100 entity. *)
(***************************************************************************)
CAVALRY_VS_INFANTRY_BONUS == 5
SQUARE_VS_CAVALRY_BONUS == 4
FLEE_HEALTH_PERCENT == 30
FLEE_OFFSET == 0     \* the draw (Math.random() - 0.5) * 200 explored: the middle one

\* calculateCavalryChargeBonus applied to a damage: * 3, / cavalryDefense or * 1
WithChargeBonus(damage, cavalry, target) ==
    IF cavalry.type # "CAVALRY" THEN damage
    ELSE IF cavalry.speed < CAVALRY_CHARGE_SPEED THEN damage
    ELSE IF target.type # "INFANTRY" THEN damage
    ELSE IF target.formation = "SQUARE" THEN damage \div target.cavalryDefense
    ELSE damage * CAVALRY_CHARGE_MULTIPLIER

\* applyPushBack: both units are moved apart along the line between them, by
\* half the overlap each (one of the halves rounded up to a whole pixel).
ApplyPushBack(u1, u2) ==
    LET Apart(tx, ty) ==
            << [u1 EXCEPT !.x = u1.x - Quot(tx, 2), !.y = u1.y - Quot(ty, 2)],
               [u2 EXCEPT !.x = u2.x + (tx - Quot(tx, 2)),
                          !.y = u2.y + (ty - Quot(ty, 2))] >>
        Split(dx, dy, overlap, distance) ==
            Apart(Quot(dx * overlap, distance), Quot(dy * overlap, distance))
        Measured(dx, dy, minDistance, distance) ==
            Split(dx, dy, minDistance - distance, distance)
        Pushed(dx, dy, d2, minDistance) ==
            IF d2 = 0 \/ d2 >= minDistance * minDistance THEN <<u1, u2>>
            ELSE Measured(dx, dy, minDistance, ISqrt(d2))
        Between(dx, dy) ==
            Pushed(dx, dy, dx * dx + dy * dy,
                   CollisionRadiusOf(u1.type) + CollisionRadiusOf(u2.type))
    IN Between(u2.x - u1.x, u2.y - u1.y)

\* the cavalry branch where the square only retaliates
CavalryBranchIntoSquare(own, opp, dOwn, dOpp) ==
    IF own.type # "CAVALRY" THEN <<dOwn, dOpp>>
    ELSE IF opp.type # "INFANTRY" THEN <<WithChargeBonus(dOwn, own, opp), dOpp>>
    ELSE IF opp.formation = "SQUARE"
    THEN <<WithChargeBonus(dOwn, own, opp), dOpp * SQUARE_VS_CAVALRY_BONUS>>
    ELSE <<WithChargeBonus(dOwn, own, opp) * CAVALRY_VS_INFANTRY_BONUS, dOpp>>

\* the damage one side deals before the opponent's type is looked at
MeleeBase(u, roll) == (MeleeDamageOf(u.type) * u.damageBonus * roll) \div 100

\* the cavalry branch of resolveMeleeCombat for the side `own` against `opp`:
\* the pair << damage of own, damage of opp >>
CavalryBranch(own, opp, dOwn, dOpp) ==
    IF own.type # "CAVALRY" THEN <<dOwn, dOpp>>
    ELSE LET charged == WithChargeBonus(dOwn, own, opp)
         IN IF opp.type # "INFANTRY" THEN <<charged, dOpp>>
            ELSE IF opp.formation = "SQUARE" THEN <<0, dOpp * SQUARE_VS_CAVALRY_BONUS>>
            ELSE <<charged * CAVALRY_VS_INFANTRY_BONUS, dOpp>>

\* takeDamage followed by the morale check of resolveMeleeCombat
MeleeHit(u, damage) ==
    LET v == TakeDamage(u, damage)
    IN IF /\ v.type = "CAVALRY"
          /\ v.entityCount * 100 < FLEE_HEALTH_PERCENT * EntityCountOf(v.type)
          /\ ~v.isFleeing
       THEN [v EXCEPT !.isFleeing = TRUE,
                      !.targetX = IF v.team = "RED" THEN 0 ELSE CANVAS_WIDTH,
                      !.targetY = v.y + FLEE_OFFSET]
       ELSE v

\* the directional multipliers, the momentum bonus and the exhaustion penalty
\* of resolveMeleeCombat on the damages d1 of unit1 and d2 of unit2: the pair
\* of damages applied, in 1/100 entity
MeleeDamages(unit1, unit2, d1, d2) ==
    LET Scaled(f1, f2) ==
            << ((f1 * (unit1.accuracyMultiplier \div 1000)) \div 1000) \div 100,
               ((f2 * (unit2.accuracyMultiplier \div 1000)) \div 1000) \div 100 >>
        Sped(m1, m2) ==
            Scaled(IF 2 * unit1.speed > 3 * unit2.speed THEN (m1 * 3) \div 2 ELSE m1,
                   IF 2 * unit1.speed > 3 * unit2.speed THEN m2
                   ELSE IF 2 * unit2.speed > 3 * unit1.speed THEN (m2 * 3) \div 2
                   ELSE m2)
    IN Sped(d1 * CalculateDirectionalMultiplier(unit1, unit2),
            d2 * CalculateDirectionalMultiplier(unit2, unit1))

\* resolveMeleeCombat(unit1, unit2): roll1 and roll2 are Math.random() * 2.0 in
\* percent.  The pair of units afterwards.
ResolveMeleeCombat(unit1, unit2, roll1, roll2) ==
    LET Worn(h) ==
            [h EXCEPT !.exhaustion = Min(EXHAUSTION_MAX * 1000,
                                         h.exhaustion + EXHAUSTION_COMBAT_RATE)]
        Dealt(d) ==
            ApplyPushBack(Worn(MeleeHit(unit1, d[2])), Worn(MeleeHit(unit2, d[1])))
        Directed(b) == Dealt(MeleeDamages(unit1, unit2, b[2], b[1]))
        Second(a) == Directed(CavalryBranch(unit2, unit1, a[2], a[1]))
    IN Second(CavalryBranch(unit1, unit2, MeleeBase(unit1, roll1),
                            MeleeBase(unit2, roll2)))

\* the body of the checkCollisions loops for the registry positions i < j
CollidePair(g, i, j, roll1, roll2) ==
    LET Logged(unit1, unit2, after) ==
            IF unit1.team # unit2.team
            THEN [g EXCEPT !.melees = Append(g.melees,
                     [a |-> unit1.id, aBefore |-> unit1.entityCount,
                      aAfter |-> after[1].entityCount,
                      b |-> unit2.id, bBefore |-> unit2.entityCount,
                      bAfter |-> after[2].entityCount,
                      first |-> unit1, second |-> unit2,
                      roll1 |-> roll1, roll2 |-> roll2])]
            ELSE g
        Resolved(unit1, unit2, after) ==
            PutObj(PutObj(Logged(unit1, unit2, after), g.units[i], after[1]),
                   g.units[j], after[2])
        Touching(unit1, unit2) ==
            Resolved(unit1, unit2,
                     IF unit1.team # unit2.team
                     THEN ResolveMeleeCombat([unit1 EXCEPT !.isMeleeLocked = TRUE],
                                             [unit2 EXCEPT !.isMeleeLocked = TRUE],
                                             roll1, roll2)
                     ELSE ApplyPushBack(unit1, unit2))
        Close(unit1, unit2, minDistance, dx, dy) ==
            IF Abs(dx) > minDistance + 10 \/ Abs(dy) > minDistance + 10 THEN g
            ELSE IF dx * dx + dy * dy >= minDistance * minDistance THEN g
            ELSE Touching(unit1, unit2)
        Pair(unit1, unit2) ==
            Close(unit1, unit2,
                  CollisionRadiusOf(unit1.type) + CollisionRadiusOf(unit2.type),
                  unit2.x - unit1.x, unit2.y - unit1.y)
    IN Pair(Obj(g, g.units[i]), Obj(g, g.units[j]))

RECURSIVE CollisionLoop(_, _, _, _, _)
CollisionLoop(g, i, j, roll1, roll2) ==
    IF i >= Len(g.units) THEN g
    ELSE IF j > Len(g.units) THEN CollisionLoop(g, i + 1, i + 2, roll1, roll2)
    ELSE CollisionLoop(CollidePair(g, i, j, roll1, roll2), i, j + 1, roll1, roll2)

CheckCollisions(g, roll1, roll2) == CollisionLoop(g, 1, 2, roll1, roll2)

(***************************************************************************)
(* GameEngine.checkWinCondition and GameEngine.update.                     *)
(***************************************************************************)
TeamCount(g, team) ==
    Cardinality({i \in 1..Len(g.units) : Obj(g, g.units[i]).team = team})

\* checkWinCondition without its second branch
CheckWinConditionRedOnly(g) ==
    IF TeamCount(g, "RED") = 0 /\ TeamCount(g, "BLUE") > 0
    THEN [g EXCEPT !.gameOver = TRUE, !.winner = "BLUE"]
    ELSE g

\* checkWinCondition that does not ask whether the other team has a unit
CheckWinConditionOneSided(g) ==
    IF TeamCount(g, "RED") = 0
    THEN [g EXCEPT !.gameOver = TRUE, !.winner = "BLUE"]
    ELSE IF TeamCount(g, "BLUE") = 0
    THEN [g EXCEPT !.gameOver = TRUE, !.winner = "RED"]
    ELSE g

CheckWinCondition(g) ==
    IF TeamCount(g, "RED") = 0 /\ TeamCount(g, "BLUE") > 0
    THEN [g EXCEPT !.gameOver = TRUE, !.winner = "BLUE"]
    ELSE IF TeamCount(g, "BLUE") = 0 /\ TeamCount(g, "RED") > 0
    THEN [g EXCEPT !.gameOver = TRUE, !.winner = "RED"]
    ELSE g

\* steps 1 to 3: every registry unit moves, its melee lock is remembered and
\* released, its reload and its exhaustion advance
MoveStep(u, dt) ==
    LET Released(m) ==
            [m EXCEPT !.wasMeleeLocked = m.isMeleeLocked, !.isMeleeLocked = FALSE]
    IN ExhaustionUpdate(UpdateReload(Released(UnitUpdate(u, dt)), dt), dt)

OverRegistry(g, F(_)) ==
    [g EXCEPT !.objs = [r \in Refs(g) |->
                          IF r \in Range(g.units) THEN F(g.objs[r]) ELSE g.objs[r]]]

\* step 7 without the filter of the selection
RemoveDeadFromRegistry(g) ==
    [g EXCEPT !.units = SelectSeq(g.units, LAMBDA r : ~IsDead(Obj(g, r)))]

\* step 7
RemoveDead(g) ==
    [g EXCEPT !.units = SelectSeq(g.units, LAMBDA r : ~IsDead(Obj(g, r))),
              !.selectedUnits = SelectSeq(g.selectedUnits, LAMBDA r : ~IsDead(Obj(g, r)))]

\* update(deltaTime) with the draws rnd.  An exception leaves the engine as
\* it is at the throw, with threw set.
Update(g, dt, rnd) ==
    IF g.gameOver THEN g
    ELSE
      LET \* steps 5 to 8, unless step 4b threw
          Combat(g4b) ==
              IF g4b.threw THEN g4b
              ELSE Collect(CheckWinCondition(RemoveDead(
                       CheckCollisions(FireLoop(g4b, 1, rnd.hits, rnd.jitter),
                                       rnd.roll1, rnd.roll2))))
          \* step 4b
          Projectiles(g4) ==
              Combat(ProjectileLoop(g4, Len(g4.projectiles), dt, rnd.falloff))
          \* step 4
          Targets(g3) == Projectiles(OverRegistry(g3, LAMBDA u : TargetStep(g3, u)))
      IN Targets(OverRegistry([g EXCEPT !.gameTime = g.gameTime + dt],
                              LAMBDA u : MoveStep(u, dt)))

(***************************************************************************)
(* One process: SceneManager, MultiplayerManager, PeerConnection,          *)
(* DeploymentManager and the game loop.  The handlers are operators on a   *)
(* world w = [game, scene, mp, inbox]; an action commits the world its      *)
(* handler returns.                                                        *)
(*                                                                         *)
(* mp[p]: isMultiplayer, isHost, myTeam (MultiplayerManager); playerTeam   *)
(* (InputHandler); isConnected and conn, the state of the data connection  *)
(* (PeerConnection); hooked, whether hookDeployment has wrapped            *)
(* handleCanvasClick; lastSyncTime (GameStateSync); running (Game);        *)
(* selectedUnitType (DeploymentManager); dragStart (InputHandler).         *)
(***************************************************************************)
NewManager ==
    [isMultiplayer |-> FALSE, isHost |-> FALSE, myTeam |-> "none",
     playerTeam |-> "none", isConnected |-> FALSE, conn |-> "none",
     hooked |-> FALSE, lastSyncTime |-> 0, running |-> TRUE,
     selectedUnitType |-> "none", dragStart |-> <<>>]

\* AICombat and AIExecutor after construction or reset()
NewAI ==
    [currentState |-> "OPENING_SETUP", stateTimer |-> 0,
     queue |-> <<>>, unitCooldowns |-> <<>>, clock |-> 0]

World == [game |-> game, scene |-> scene, mp |-> mp, inbox |-> inbox]

\* PeerConnection.send: nothing is sent unless the connection is open
Send(w, p, data) ==
    IF ~w.mp[p].isConnected THEN w
    ELSE [w EXCEPT !.inbox[Other(p)] = Append(w.inbox[Other(p)], data)]

\* MultiplayerManager.isActive
IsActive(w, p) == w.mp[p].isMultiplayer /\ w.mp[p].isConnected

\* MultiplayerManager.sendSceneTransition
SendSceneTransition(w, p, sceneName) ==
    IF w.mp[p].isMultiplayer /\ w.mp[p].isConnected
    THEN Send(w, p, [type |-> "SCENE_TRANSITION", scene |-> sceneName])
    ELSE w

\* SceneManager.transitionTo
TransitionTo(w, p, sceneName) ==
    CASE sceneName = "start" -> [w EXCEPT !.scene[p] = "start"]
      [] sceneName = "deployment" ->
           [w EXCEPT !.scene[p] = "deployment", !.game[p] = Restart(w.game[p])]
      [] sceneName = "battle" ->
           LET w1 == [w EXCEPT !.scene[p] = "battle",
                               !.game[p].gameOver = FALSE,
                               !.game[p].winner = "none",
                               !.game[p].gameTime = 0]
           IN IF IsActive(w1, p) THEN SendSceneTransition(w1, p, "battle") ELSE w1
      [] OTHER -> w

\* MultiplayerManager.hostGame
HostGame(w, p) ==
    [w EXCEPT !.mp[p].isMultiplayer = TRUE, !.mp[p].isHost = TRUE,
              !.mp[p].myTeam = "RED", !.mp[p].playerTeam = "RED"]

\* MultiplayerManager.joinGame; the connection opens later
JoinGame(w, p) ==
    [w EXCEPT !.mp[p].isMultiplayer = TRUE, !.mp[p].isHost = FALSE,
              !.mp[p].myTeam = "BLUE", !.mp[p].playerTeam = "BLUE"]

\* MultiplayerManager.onPeerConnected
OnPeerConnected(w, p) ==
    LET w1 == [w EXCEPT !.mp[p].playerTeam = w.mp[p].myTeam]
        w2 == IF ~w1.mp[p].isHost THEN TransitionTo(w1, p, "deployment") ELSE w1
    IN [w2 EXCEPT !.mp[p].hooked = TRUE]

\* disableMultiplayer without the reset of inputHandler.playerTeam
DisableMultiplayerKeepingTeam(w, p) ==
    [w EXCEPT !.mp[p].isMultiplayer = FALSE, !.mp[p].myTeam = "none"]

\* MultiplayerManager.disableMultiplayer
DisableMultiplayer(w, p) ==
    [w EXCEPT !.mp[p].isMultiplayer = FALSE, !.mp[p].myTeam = "none",
              !.mp[p].playerTeam = "none"]

\* handleRemoteData without the test of isHost
HandleRemoteDataByAnyPeer(w, p, data) ==
    CASE data.type = "GAME_STATE_SYNC" ->
           [w EXCEPT !.game[p] = MergeRemoteState(w.game[p], data)]
      [] data.type = "DEPLOY_UNIT" ->
           [w EXCEPT !.game[p] = ApplyDeploymentEvent(w.game[p], data)]
      [] data.type = "SCENE_TRANSITION" ->
           IF data.scene = "battle" /\ w.scene[p] = "deployment"
           THEN TransitionTo(w, p, "battle")
           ELSE w
      [] OTHER -> w

\* handleRemoteData without the test of the current scene
HandleRemoteDataInAnyScene(w, p, data) ==
    CASE data.type = "GAME_STATE_SYNC" ->
           IF ~w.mp[p].isHost
           THEN [w EXCEPT !.game[p] = MergeRemoteState(w.game[p], data)]
           ELSE w
      [] data.type = "DEPLOY_UNIT" ->
           [w EXCEPT !.game[p] = ApplyDeploymentEvent(w.game[p], data)]
      [] data.type = "SCENE_TRANSITION" ->
           IF data.scene = "battle" THEN TransitionTo(w, p, "battle") ELSE w
      [] OTHER -> w

\* MultiplayerManager.handleRemoteData
HandleRemoteData(w, p, data) ==
    CASE data.type = "GAME_STATE_SYNC" ->
           IF ~w.mp[p].isHost
           THEN [w EXCEPT !.game[p] = MergeRemoteState(w.game[p], data)]
           ELSE w
      [] data.type = "DEPLOY_UNIT" ->
           [w EXCEPT !.game[p] = ApplyDeploymentEvent(w.game[p], data)]
      [] data.type = "SCENE_TRANSITION" ->
           IF data.scene = "battle" /\ w.scene[p] = "deployment"
           THEN TransitionTo(w, p, "battle")
           ELSE w
      [] OTHER -> w

\* DeploymentManager.determineTeamFromPosition
DetermineTeamFromPosition(x) ==
    IF x >= 0 /\ x <= DEPLOYMENT_WIDTH THEN "RED"
    ELSE IF x >= CANVAS_WIDTH - DEPLOYMENT_WIDTH /\ x <= CANVAS_WIDTH THEN "BLUE"
    ELSE "none"

\* DeploymentManager.handleCanvasClick as written
OriginalHandleClick(w, p, x, y) ==
    LET type == w.mp[p].selectedUnitType
        team == DetermineTeamFromPosition(x)
        g1 == CreateUnit(w.game[p], type, team, x, y)
        r == LastCreated(g1)
    IN IF type = "none" \/ team = "none" THEN w
       ELSE [w EXCEPT !.game[p] =
                PutObj(g1, r, [Obj(g1, r) EXCEPT !.angle =
                                  IF team = "RED" THEN 0 ELSE 180])]

\* handleCanvasClick as the canvas calls it: the wrapper hookDeployment
\* installs sends the last unit of the registry when the registry grew
HandleCanvasClick(w, p, x, y) ==
    LET Synced(w1) ==
            IF w.mp[p].hooked /\ Len(w1.game[p].units) > Len(w.game[p].units)
            THEN Send(w1, p, SerializeDeploymentEvent(w1.game[p],
                                                      LastCreated(w1.game[p])))
            ELSE w1
    IN Synced(OriginalHandleClick(w, p, x, y))

\* GameStateSync.shouldSync: the pair << due, lastSyncTime afterwards >>
ShouldSync(lastSyncTime, dt) ==
    IF lastSyncTime + dt >= SYNC_INTERVAL THEN <<TRUE, 0>>
    ELSE <<FALSE, lastSyncTime + dt>>

\* MultiplayerManager.update
MultiplayerUpdate(w, p, dt) ==
    IF ~w.mp[p].isMultiplayer \/ ~w.mp[p].isConnected THEN w
    ELSE IF w.mp[p].isHost /\ w.scene[p] = "battle"
    THEN LET due == ShouldSync(w.mp[p].lastSyncTime, dt)
             w1 == [w EXCEPT !.mp[p].lastSyncTime = due[2]]
         IN IF due[1] THEN Send(w1, p, SerializeGameState(w1.game[p])) ELSE w1
    ELSE w

\* the log of an update call is handed to trace; the engine keeps none of it
ClearLog(g) ==
    [g EXCEPT !.threw = FALSE, !.volleys = <<>>, !.impacts = <<>>, !.melees = <<>>]

\* Game.gameLoop in battle mode: update, then the multiplayer update; an
\* exception stops the loop.  The log of the update call is still in the
\* engine of the world returned.
GameLoopBody(w, p, dt, rnd) ==
    LET Updated(g1) ==
            IF g1.threw THEN [w EXCEPT !.game[p] = g1, !.mp[p].running = FALSE]
            ELSE MultiplayerUpdate([w EXCEPT !.game[p] = g1], p, dt)
    IN Updated(Update(w.game[p], dt, rnd))

(***************************************************************************)
(* GameEngine: selection, movement orders, formations (the commands the    *)
(* InputHandler issues) and FormationSystem.calculateFormationPositions.   *)
(***************************************************************************)
FORMATION_SPACING == 30

\* clearSelection
ClearSelection(g) ==
    [g EXCEPT !.objs = [r \in Refs(g) |->
                          IF r \in Range(g.selectedUnits)
                          THEN [g.objs[r] EXCEPT !.isSelected = FALSE] ELSE g.objs[r]],
              !.selectedUnits = <<>>]

\* the registry position selectUnitAtPosition finds, or 0
UnitAtPosition(g, x, y, team) ==
    LET hit == {i \in 1..Len(g.units) :
                  LET u == Obj(g, g.units[i])
                  IN /\ team = "none" \/ u.team = team
                     /\ DistSq(u.x, u.y, x, y)
                          <= CollisionRadiusOf(u.type) * CollisionRadiusOf(u.type)}
    IN IF hit = {} THEN 0 ELSE CHOOSE i \in hit : \A j \in hit : i <= j

\* selectUnitAtPosition
SelectUnitAtPosition(g, x, y, team) ==
    LET i == UnitAtPosition(g, x, y, team)
        g1 == ClearSelection(g)
    IN IF i = 0 THEN g
       ELSE [PutObj(g1, g.units[i], [Obj(g1, g.units[i]) EXCEPT !.isSelected = TRUE])
               EXCEPT !.selectedUnits = <<g.units[i]>>]

\* selectUnitsInBox
SelectUnitsInBox(g, x1, y1, x2, y2, team) ==
    LET g1 == ClearSelection(g)
        inBox(r) == LET u == Obj(g1, r)
                    IN /\ team = "none" \/ u.team = team
                       /\ u.x >= Min(x1, x2) /\ u.x <= Max(x1, x2)
                       /\ u.y >= Min(y1, y2) /\ u.y <= Max(y1, y2)
    IN [g1 EXCEPT !.objs = [r \in Refs(g1) |->
                              IF r \in Range(g1.units) /\ inBox(r)
                              THEN [g1.objs[r] EXCEPT !.isSelected = TRUE]
                              ELSE g1.objs[r]],
                  !.selectedUnits = SelectSeq(g1.units, inBox)]

RECURSIVE SumOver(_, _, _)
SumOver(s, F(_), i) == IF i > Len(s) THEN 0 ELSE F(s[i]) + SumOver(s, F, i + 1)

\* calculateFormationPositions: the position of the i-th selected unit
\* (i from 0) for a move order to (targetX, targetY)
FormationPosition(g, i, targetX, targetY, formationType) ==
    LET Shape(u, centerX, centerY, angle, half, side) ==
            CASE formationType = "LINE" ->
                   <<targetX + Quot(Cos1000(angle + 90) * half, 1000),
                     targetY + Quot(Sin1000(angle + 90) * half, 1000)>>
              [] formationType = "COLUMN" ->
                   <<targetX - Quot(Cos1000(angle) * i * FORMATION_SPACING, 1000),
                     targetY - Quot(Sin1000(angle) * i * FORMATION_SPACING, 1000)>>
              [] formationType = "SQUARE" ->
                   <<targetX + Quot((2 * (i % side) - side) * FORMATION_SPACING, 2),
                     targetY + Quot((2 * (i \div side) - side) * FORMATION_SPACING, 2)>>
              [] OTHER -> <<targetX + (u.x - centerX), targetY + (u.y - centerY)>>
        Facing(sel, n, centerX, centerY) ==
            Shape(Obj(g, sel[i + 1]), centerX, centerY,
                  Atan2Deg(targetY - centerY, targetX - centerX),
                  Quot((2 * i - (n - 1)) * FORMATION_SPACING, 2),
                  CHOOSE k \in 1..n : k * k >= n /\ (k - 1) * (k - 1) < n)
        Centred(sel, n) ==
            Facing(sel, n, Quot(SumOver(sel, LAMBDA r : Obj(g, r).x, 1), n),
                   Quot(SumOver(sel, LAMBDA r : Obj(g, r).y, 1), n))
    IN Centred(g.selectedUnits, Len(g.selectedUnits))

\* moveSelectedUnits: every selected unit not in SQUARE gets its position of
\* the formation of the first selected unit as movement target
RECURSIVE MoveLoop(_, _, _, _, _)
MoveLoop(g, g0, i, targetX, targetY) ==
    IF i >= Len(g0.selectedUnits) THEN g
    ELSE LET r == g0.selectedUnits[i + 1]
             Ordered(pos) == PutObj(g, r, [Obj(g, r) EXCEPT !.targetX = pos[1],
                                                            !.targetY = pos[2]])
         IN IF Obj(g, r).formation = "SQUARE"
            THEN MoveLoop(g, g0, i + 1, targetX, targetY)
            ELSE MoveLoop(Ordered(FormationPosition(g0, i, targetX, targetY,
                                      Obj(g0, g0.selectedUnits[1]).formation)),
                          g0, i + 1, targetX, targetY)

\* moveSelectedUnits deciding by the formation of the first selected unit
MoveSelectedUnitsByFirst(g, targetX, targetY) ==
    IF Len(g.selectedUnits) = 0 \/ Obj(g, g.selectedUnits[1]).formation = "SQUARE"
    THEN g
    ELSE [g EXCEPT !.objs = [r \in Refs(g) |->
            IF r \in Range(g.selectedUnits)
            THEN LET pos == FormationPosition(g,
                               (CHOOSE i \in 1..Len(g.selectedUnits) :
                                    g.selectedUnits[i] = r) - 1,
                               targetX, targetY, Obj(g, g.selectedUnits[1]).formation)
                 IN [g.objs[r] EXCEPT !.targetX = pos[1], !.targetY = pos[2]]
            ELSE g.objs[r]]]

MoveSelectedUnits(g, targetX, targetY) ==
    IF Len(g.selectedUnits) = 0 THEN g ELSE MoveLoop(g, g, 0, targetX, targetY)

\* setFormationForSelected
SetFormationForSelected(g, formationType) ==
    [g EXCEPT !.objs = [r \in Refs(g) |->
                          IF r \in Range(g.selectedUnits)
                          THEN SetFormation(g.objs[r], formationType) ELSE g.objs[r]]]

(***************************************************************************)
(* InputHandler on the battle canvas.  mp[p].dragStart is the position of  *)
(* the last mouse-down not yet released, or << >>.                         *)
(***************************************************************************)
\* onMouseDown
OnMouseDown(w, p, x, y) ==
    IF w.scene[p] # "battle" THEN w
    ELSE [w EXCEPT !.mp[p].dragStart = <<x, y>>,
                   !.game[p] = SelectUnitAtPosition(w.game[p], x, y, w.mp[p].playerTeam)]

\* onMouseUp
OnMouseUp(w, p, x, y) ==
    LET g == w.game[p]
        start == w.mp[p].dragStart
        g1 == IF start = <<>> THEN g
              ELSE IF Len(g.selectedUnits) > 0 THEN MoveSelectedUnits(g, x, y)
              ELSE IF Abs(x - start[1]) > 5 \/ Abs(y - start[2]) > 5
              THEN SelectUnitsInBox(g, start[1], start[2], x, y, w.mp[p].playerTeam)
              ELSE g
    IN [w EXCEPT !.game[p] = g1, !.mp[p].dragStart = <<>>]

\* onKeyDown for the formation keys L, C, F, N and Escape; exactly one of the
\* two handlers (deployment canvas, battle canvas) handles the key
OnFormationKey(w, p, key) ==
    LET g == w.game[p]
        anyNotInSquare == \E i \in 1..Len(g.selectedUnits) :
                             Obj(g, g.selectedUnits[i]).formation # "SQUARE"
    IN CASE key = "Escape" -> [w EXCEPT !.game[p] = ClearSelection(g)]
         [] key = "L" -> [w EXCEPT !.game[p] = SetFormationForSelected(g, "LINE")]
         [] key = "C" -> [w EXCEPT !.game[p] = SetFormationForSelected(g, "COLUMN")]
         [] key = "F" -> [w EXCEPT !.game[p] = SetFormationForSelected(g,
                              IF anyNotInSquare THEN "SQUARE" ELSE "NONE")]
         [] OTHER -> [w EXCEPT !.game[p] = SetFormationForSelected(g, "NONE")]

\* onKeyDown for R: after the game is over, back to the deployment scene
OnRestartKey(w, p) ==
    IF w.game[p].gameOver THEN TransitionTo(w, p, "deployment") ELSE w

(***************************************************************************)
(* The two-process specification: the state after construction, one action *)
(* per event handler.                                                      *)
(***************************************************************************)
NoData == [type |-> "none"]
Tick(dt) == [type |-> "tick", dt |-> dt]

\* what a step leaves in trace: the handler, its process, the log of the
\* update call it made, the message it handled and the ids the registry of
\* the process held before
Observed(kind, p, g, data, before) ==
    [kind |-> kind, proc |-> p, threw |-> g.threw, volleys |-> g.volleys,
     impacts |-> g.impacts, melees |-> g.melees, data |-> data, before |-> before]

Quiet == Observed("quiet", "host", NewGame, NoData, {})

Commit(w, t) ==
    /\ game' = w.game
    /\ scene' = w.scene
    /\ mp' = w.mp
    /\ inbox' = w.inbox
    /\ trace' = t
    /\ ai' = ai

\* a network event: the handler runs whenever the event arrives
Event(w, t) == Commit(w, t) /\ inputs' = inputs

\* a user input or a game-loop callback, while the exploration has room
Input(w, t) == inputs < MaxInputs /\ Commit(w, t) /\ inputs' = inputs + 1

Room(p) == Len(inbox[Other(p)]) < MaxInbox

Init ==
    /\ game = [p \in Procs |-> NewGame]
    /\ scene = [p \in Procs |-> "start"]
    /\ mp = [p \in Procs |-> NewManager]
    /\ inbox = [p \in Procs |-> <<>>]
    /\ trace = Quiet
    /\ inputs = 0
    /\ ai = NewAI

\* the inputs explored
DeployTypes == {"INFANTRY", "CANNON"}
ClickXs == {300, 900}
ClickYs == {400}
DeltaTimes == {16, MAX_DELTA_TIME}
FormationKeys == {"L", "C", "F", "N", "Escape"}

\* startButton: single-player deployment
StartButton(p) ==
    /\ p = "host" /\ scene[p] = "start"
    /\ Input(TransitionTo(World, p, "deployment"), Quiet)

\* mpHostButton
MpHostButton(p) ==
    /\ p = "host" /\ scene[p] = "start"
    /\ Input(TransitionTo(HostGame(World, p), p, "deployment"),
              Quiet)

\* the join button of the multiplayer panel, with the room code of the other
\* process, which is hosting: the data connection starts to open on both sides
JoinButton(p) ==
    /\ p = "guest" /\ scene[p] = "start"
    /\ mp[p].conn = "none"
    /\ mp[Other(p)].isMultiplayer /\ mp[Other(p)].isHost /\ mp[Other(p)].conn = "none"
    /\ Input([JoinGame(World, p) EXCEPT !.mp[p].conn = "opening",
                                                  !.mp[Other(p)].conn = "opening"],
              Quiet)

\* the 'open' event of the data connection (PeerConnection.handleConnection)
ConnOpen(p) ==
    /\ mp[p].conn = "opening"
    /\ Event(OnPeerConnected([World EXCEPT !.mp[p].conn = "open",
                                            !.mp[p].isConnected = TRUE], p),
              Quiet)

\* a unit spawn button of the deployment scene (selectUnitType)
SelectUnitType(p, type) ==
    /\ scene[p] = "deployment"
    /\ mp[p].selectedUnitType # type
    /\ Input([World EXCEPT !.mp[p].selectedUnitType = type],
              Quiet)

\* a click on the deployment canvas, enabled in the deployment scene
CanvasClick(p, x, y) ==
    /\ scene[p] = "deployment"
    /\ mp[p].selectedUnitType # "none"
    /\ Len(game[p].units) < MaxUnits
    /\ Room(p)
    /\ Input(HandleCanvasClick(World, p, x, y), Quiet)

\* startBattleButton
StartBattleButton(p) ==
    /\ scene[p] = "deployment"
    /\ Room(p)
    /\ Input(TransitionTo(World, p, "battle"), Quiet)

\* the 'data' event of the data connection, messages in the order sent
Deliver(p) ==
    /\ mp[p].isConnected /\ inbox[p] # <<>>
    /\ LET data == Head(inbox[p])
           w == [World EXCEPT !.inbox[p] = Tail(inbox[p])]
       IN Event(HandleRemoteData(w, p, data),
                Observed("Deliver", p, NewGame, data, UnitIds(game[p])))

\* one callback of the game loop in battle mode
GameLoop(p, dt, rnd) ==
    /\ mp[p].running /\ scene[p] = "battle"
    /\ Room(p)
    /\ LET Done(w) == Input([w EXCEPT !.game[p] = ClearLog(w.game[p])],
                             Observed("GameLoop", p, w.game[p], Tick(dt), UnitIds(game[p])))
       IN Done(GameLoopBody(World, p, dt, rnd))

\* mouse-down on the battle canvas, on a unit or on open ground
MouseDown(p, x, y) ==
    /\ scene[p] = "battle"
    /\ Input(OnMouseDown(World, p, x, y), Quiet)

\* mouse-up on the battle canvas
MouseUp(p, x, y) ==
    /\ mp[p].dragStart # <<>>
    /\ Input(OnMouseUp(World, p, x, y), Quiet)

FormationKey(p, key) ==
    /\ scene[p] = "battle"
    /\ game[p].selectedUnits # <<>>
    /\ Input(OnFormationKey(World, p, key), Quiet)

RestartKey(p) ==
    /\ game[p].gameOver
    /\ Input(OnRestartKey(World, p), Quiet)

\* SettingsPanel.applySettings with the values unchanged: back to deployment
ApplySettings(p) ==
    /\ scene[p] # "start"
    /\ Input(TransitionTo(World, p, "deployment"), Quiet)

\* the disconnect button: MultiplayerManager.disconnect
Disconnect(p) ==
    /\ mp[p].isMultiplayer /\ mp[p].conn # "none"
    /\ Input(DisableMultiplayer([World EXCEPT !.mp[p].isConnected = FALSE,
                                                        !.mp[p].conn = "closed",
                                                        !.inbox[p] = <<>>], p),
              Quiet)

\* the 'close' event of the data connection after the other side closed it
ConnClose(p) ==
    /\ mp[p].conn \in {"opening", "open"} /\ mp[Other(p)].conn = "closed"
    /\ Event(DisableMultiplayer([World EXCEPT !.mp[p].isConnected = FALSE,
                                               !.mp[p].conn = "closed",
                                               !.inbox[p] = <<>>], p),
              Quiet)

\* the draws that can matter in the state: a roll nothing reads is fixed
RollsFor(g, dt) ==
    LET Loaded(u) == u.canFire \/ UpdateReload(u, dt).canFire
        opposed == TeamCount(g, "RED") > 0 /\ TeamCount(g, "BLUE") > 0
        muskets == {i \in 1..Len(g.units) :
                      /\ opposed
                      /\ \/ Obj(g, g.units[i]).type = "INFANTRY"
                         \/ Obj(g, g.units[i]).type = "CANNON" /\ ~g.audioManager
                      /\ Loaded(Obj(g, g.units[i]))}
        cannon == opposed /\ g.audioManager /\ \E i \in 1..Len(g.units) :
                                /\ Obj(g, g.units[i]).type = "CANNON"
                                /\ Loaded(Obj(g, g.units[i]))
        close == \E i, j \in 1..Len(g.units) :
                    /\ Obj(g, g.units[i]).team # Obj(g, g.units[j]).team
                    /\ DistSq(Obj(g, g.units[i]).x, Obj(g, g.units[i]).y,
                              Obj(g, g.units[j]).x, Obj(g, g.units[j]).y) < 100 * 100
    IN [hits : SUBSET muskets,
        jitter : IF cannon THEN {0 - 1, 0, 1} ELSE {0},
        falloff : IF g.projectiles # <<>> THEN {20, 99} ELSE {99},
        roll1 : IF close THEN {0, 100, 199} ELSE {100},
        roll2 : IF close THEN {0, 100, 199} ELSE {100}]

MousePoints(g) ==
    {<<Obj(g, g.units[i]).x, Obj(g, g.units[i]).y>> : i \in 1..Len(g.units)}
        \cup {<<600, 400>>}

Next ==
    \E p \in Procs :
        \/ StartButton(p)
        \/ MpHostButton(p)
        \/ JoinButton(p)
        \/ ConnOpen(p)
        \/ \E type \in DeployTypes : SelectUnitType(p, type)
        \/ \E x \in ClickXs : \E y \in ClickYs : CanvasClick(p, x, y)
        \/ StartBattleButton(p)
        \/ Deliver(p)
        \/ \E dt \in DeltaTimes : \E rnd \in RollsFor(game[p], dt) : GameLoop(p, dt, rnd)
        \/ RestartKey(p)
        \/ ApplySettings(p)
        \/ Disconnect(p)
        \/ ConnClose(p)

Spec == Init /\ [][Next]_vars

\* The browser dispatches the 'open' and 'data' events of a data connection
\* that has them pending: each is taken if it stays enabled.
LiveInit ==
    /\ game = [p \in Procs |-> NewGame]
    /\ scene = [p \in Procs |-> "start"]
    /\ mp = [p \in Procs |-> NewManager]
    /\ inbox = [p \in Procs |-> <<>>]
    /\ trace = Quiet
    /\ inputs = MaxInputs - MaxLiveInputs
    /\ ai = NewAI

LiveSpec ==
    /\ LiveInit /\ [][Next]_vars
    /\ \A p \in Procs : WF_vars(ConnOpen(p)) /\ WF_vars(Deliver(p))

(***************************************************************************)
(* Battles in progress.  The deployment zones are 600 pixels apart and a   *)
(* musket carries 250: units meet only after marching for seconds, many    *)
(* game-loop callbacks after construction.  BattleSpec starts from         *)
(* registries of a two-player battle some seconds in: the host placed the  *)
(* units before the guest connected, move orders have brought them where   *)
(* they stand, volleys have been exchanged (the ranged units are           *)
(* reloading, some units have lost entities), and the guest has merged the *)
(* host's last snapshot into its own, empty, registry.                     *)
(***************************************************************************)
\* a unit created by createUnit, turned, formed and reduced to count entities
Fielded(id, type, team, x, y, angle, formation, count) ==
    [SetFormation(NewUnit(id, type, team, x, y), formation)
       EXCEPT !.angle = angle, !.entityCount = count]

\* the unit after its last volley at target: reloading, progress made
Reloading(u, progress, target) ==
    [StartReload(u, ReloadDurationOf(u.type))
       EXCEPT !.reloadProgress = progress, !.currentTarget = target]

\* the engine whose createUnit calls made the units, in this order
Registry(units, projectiles, gameTime) ==
    [NewGame EXCEPT !.objs = [r \in 1..Len(units) |-> units[r]],
                    !.units = [r \in 1..Len(units) |-> r],
                    !.projectiles = projectiles,
                    !.gameTime = gameTime,
                    !.nextUnitId = Len(units),
                    !.issuedLast = Len(units) - 1,
                    !.issuedPrevMax = IF Len(units) > 1 THEN Len(units) - 2 ELSE Null]

Full(type) == EntityCountOf(type)
Few == 10 * EntityScale
AlmostReloaded == 995 * 1000
Counts(type, team, weak) == IF team = weak THEN Few ELSE Full(type)
\* in a melee a unit loses fractions of an entity per callback
Last(type, team, weak) == IF team = weak THEN EntityScale ELSE Full(type)

\* two RED infantry units in a firing line against one BLUE infantry unit
FiringLine(weak, formation) ==
    Registry(
      << Reloading(Fielded(0, "INFANTRY", "RED", 500, 380, 0, formation,
                           Counts("INFANTRY", "RED", weak)), AlmostReloaded, 3),
         Reloading(Fielded(1, "INFANTRY", "RED", 500, 420, 0, "NONE",
                           Full("INFANTRY")), AlmostReloaded, 3),
         Reloading(Fielded(2, "INFANTRY", "BLUE", 650, 400, 180, "NONE",
                           Counts("INFANTRY", "BLUE", weak)), AlmostReloaded, 1) >>,
      <<>>, 4984)

\* a RED cannon whose ball is about to reach the BLUE infantry unit a RED
\* infantry unit is aiming at
CannonShot(weak) ==
    Registry(
      << Reloading(Fielded(0, "CANNON", "RED", 300, 400, 0, "NONE", Full("CANNON")),
                   40 * 1000, 2),
         Reloading(Fielded(1, "INFANTRY", "BLUE", 700, 400, 180, "NONE",
                           Counts("INFANTRY", "BLUE", weak)), 500 * 1000, 3),
         Reloading(Fielded(2, "INFANTRY", "RED", 500, 300, 30, "NONE",
                           Counts("INFANTRY", "RED", weak)), AlmostReloaded, 2) >>,
      << [NewProjectile(300, 400, 400, 0, 0, CANNON_BASE_DAMAGE * EntityScale, "RED",
                        (CANNON_FIRE_RANGE * 3) \div 2) EXCEPT !.x = 660] >>,
      4984)

\* RED cavalry riding into a BLUE infantry unit, into its rear where both are
\* at full strength; the infantry was deployed first where RED is weak
CavalryCharge(weak, formation) ==
    LET Rides(id) ==
            [Fielded(id, "CAVALRY", "RED", 585, 400, 0, "NONE",
                     Last("CAVALRY", "RED", weak))
               EXCEPT !.targetX = 700, !.targetY = 400, !.speed = CAVALRY_MAX_SPEED,
                      !.vx = 2]
        Stands(id) ==
            Reloading(Fielded(id, "INFANTRY", "BLUE", 615, 400,
                              IF weak = "none" THEN 0 ELSE 180, formation,
                              Last("INFANTRY", "BLUE", weak)), 500 * 1000, NoRef)
    IN Registry(IF weak = "RED" THEN << Stands(0), Rides(1) >>
                ELSE << Rides(0), Stands(1) >>,
                <<>>, 4984)

\* a RED infantry unit aiming at a BLUE one past the flank of a RED cavalry
\* unit: the line of fire passes 13 pixels from the cavalry's centre
Screened(by) ==
    Registry(
      << Reloading(Fielded(0, "INFANTRY", "RED", 500, 400, 0, "NONE",
                           Full("INFANTRY")), AlmostReloaded, 3),
         Fielded(1, by, "RED", 575, 413, 0, "NONE", Full(by)),
         Reloading(Fielded(2, "INFANTRY", "BLUE", 650, 400, 180, "NONE",
                           Full("INFANTRY")), 500 * 1000, NoRef) >>,
      <<>>, 4984)

\* a RED cannon about to fire at a BLUE infantry unit, in an engine with or
\* without an audio manager
Battery(audio) ==
    [Registry(
       << Reloading(Fielded(0, "CANNON", "RED", 300, 400, 0, "NONE", Full("CANNON")),
                    AlmostReloaded, 2),
          Reloading(Fielded(1, "INFANTRY", "BLUE", 700, 400, 180, "NONE",
                            Full("INFANTRY")), 500 * 1000, NoRef) >>,
       <<>>, 4984)
       EXCEPT !.audioManager = audio]

\* the battle of CannonShot with two balls that missed: one about to leave
\* the playfield, one of a cannon since lost about to exceed its range
Overshot ==
    [CannonShot("none") EXCEPT !.projectiles =
        << [NewProjectile(300, 400, 400, 0, 0, CANNON_BASE_DAMAGE * EntityScale, "RED",
                          (CANNON_FIRE_RANGE * 3) \div 2) EXCEPT !.x = 1190],
           [NewProjectile(100, 400, 400, 0, 0, CANNON_BASE_DAMAGE * EntityScale, "RED",
                          (CANNON_FIRE_RANGE * 3) \div 2) EXCEPT !.x = 1140] >>]

\* a battle started with the units of one team only
Unopposed(team) ==
    Registry(<< Fielded(0, "INFANTRY", team, IF team = "RED" THEN 300 ELSE 900, 400,
                        IF team = "RED" THEN 0 ELSE 180, "NONE", Full("INFANTRY")) >>,
             <<>>, 0)

\* late in a battle: a RED infantry unit worn by its volleys about to fire at
\* a BLUE one that is marching, all but spent
Wearied ==
    LET Tired(u, exhaustion) ==
            ApplyExhaustionPenalties([u EXCEPT !.exhaustion = exhaustion])
        Fires ==
            Reloading(Tired(Fielded(0, "INFANTRY", "RED", 500, 400, 0, "NONE",
                                    Full("INFANTRY")),
                            EXHAUSTION_MAX * 1000 - 2000),
                      AlmostReloaded, 2)
        Marches ==
            [Tired(Fielded(1, "INFANTRY", "BLUE", 650, 400, 0, "NONE",
                           Full("INFANTRY")),
                   EXHAUSTION_MAX * 1000 - 5)
               EXCEPT !.targetX = 900, !.targetY = 400, !.speed = 40, !.vx = 1]
    IN Registry(<< Fires, Marches >>, <<>>, 4984)

\* two RED infantry units selected together, one of them formed in square
\* on its way to a target it still holds, far from the BLUE infantry
Formed(squareFirst) ==
    LET Stands(id, y) ==
            [Fielded(id, "INFANTRY", "RED", 300, y, 0, "SQUARE", Full("INFANTRY"))
               EXCEPT !.targetX = 360, !.targetY = y, !.isSelected = TRUE]
        Waits(id, y) ==
            [Fielded(id, "INFANTRY", "RED", 300, y, 0, "NONE", Full("INFANTRY"))
               EXCEPT !.isSelected = TRUE]
        Far == Fielded(2, "INFANTRY", "BLUE", 900, 400, 180, "NONE", Full("INFANTRY"))
    IN [Registry(IF squareFirst THEN << Stands(0, 380), Waits(1, 420), Far >>
                 ELSE << Waits(0, 380), Stands(1, 420), Far >>,
                 <<>>, 4984)
          EXCEPT !.selectedUnits = << 1, 2 >>]

Battles ==
    {FiringLine(weak, f) : weak \in {"RED", "BLUE"}, f \in {"NONE", "LINE"}}
      \cup {FiringLine("none", "COLUMN")}
      \cup {CannonShot(weak) : weak \in {"RED", "BLUE"}}
      \cup {CavalryCharge(weak, f) : weak \in {"RED", "BLUE", "none"},
                                      f \in {"NONE", "SQUARE"}}
      \cup {Screened(by) : by \in {"CAVALRY", "INFANTRY"}}
      \cup {Battery(audio) : audio \in BOOLEAN}
      \cup {Overshot, Wearied}
      \cup {Formed(squareFirst) : squareFirst \in BOOLEAN}
      \cup {Unopposed(team) : team \in Teams}

Connected(isHost) ==
    [NewManager EXCEPT !.isMultiplayer = TRUE, !.isHost = isHost,
                       !.myTeam = IF isHost THEN "RED" ELSE "BLUE",
                       !.playerTeam = IF isHost THEN "RED" ELSE "BLUE",
                       !.isConnected = TRUE, !.conn = "open", !.hooked = TRUE]

BattleInit ==
    \E b \in Battles :
        /\ game = [p \in Procs |->
                     IF p = "host" THEN b
                     ELSE MergeRemoteState(NewGame, SerializeGameState(b))]
        /\ scene = [p \in Procs |-> "battle"]
        /\ mp = [p \in Procs |-> Connected(p = "host")]
        /\ inbox = [p \in Procs |-> <<>>]
        /\ trace = Quiet
        /\ inputs = MaxInputs - MaxBattleInputs
        /\ ai = NewAI

\* the commands explored are the host's
BattleNext ==
    \/ \E p \in Procs : Deliver(p)
    \/ \E p \in Procs : \E dt \in DeltaTimes : \E rnd \in RollsFor(game[p], dt) :
          GameLoop(p, dt, rnd)
    \/ \E pt \in MousePoints(game["host"]) : MouseDown("host", pt[1], pt[2])
    \/ \E pt \in MousePoints(game["host"]) : MouseUp("host", pt[1], pt[2])
    \/ \E key \in FormationKeys : FormationKey("host", key)

BattleSpec == BattleInit /\ [][BattleNext]_vars

\* Battles about to end for both teams at once: two infantry units of a few
\* entities each at the end of their reload, aiming at each other; two
\* infantry units of one entity each in contact; a battle started with no
\* unit deployed.
Duel(formation) ==
    Registry(
      << Reloading(Fielded(0, "INFANTRY", "RED", 500, 400, 0, formation, Few),
                   AlmostReloaded, 2),
         Reloading(Fielded(1, "INFANTRY", "BLUE", 650, 400, 180, formation, Few),
                   AlmostReloaded, 1) >>,
      <<>>, 4984)

Brawl ==
    Registry(
      << Reloading(Fielded(0, "INFANTRY", "RED", 590, 400, 0, "NONE", EntityScale),
                   500 * 1000, NoRef),
         Reloading(Fielded(1, "INFANTRY", "BLUE", 610, 400, 180, "NONE", EntityScale),
                   500 * 1000, NoRef) >>,
      <<>>, 4984)

Deserted == Registry(<<>>, <<>>, 0)

Duels == {Duel(f) : f \in {"NONE", "LINE"}} \cup {Brawl, Deserted}

DuelInit ==
    \E b \in Duels :
        /\ game = [p \in Procs |->
                     IF p = "host" THEN b
                     ELSE MergeRemoteState(NewGame, SerializeGameState(b))]
        /\ scene = [p \in Procs |-> "battle"]
        /\ mp = [p \in Procs |-> Connected(p = "host")]
        /\ inbox = [p \in Procs |-> <<>>]
        /\ trace = Quiet
        /\ inputs = MaxInputs - MaxBattleInputs
        /\ ai = NewAI

DuelSpec == DuelInit /\ [][BattleNext]_vars

\* The battles in progress with the guest at the mouse and the keyboard:
\* the commands explored are the guest's, the snapshots the host's.
CommandNext ==
    \/ \E p \in Procs : Deliver(p)
    \/ \E dt \in DeltaTimes : \E rnd \in RollsFor(game["host"], dt) :
          GameLoop("host", dt, rnd)
    \/ \E pt \in MousePoints(game["guest"]) : MouseDown("guest", pt[1], pt[2])
    \/ \E pt \in MousePoints(game["guest"]) : MouseUp("guest", pt[1], pt[2])
    \/ \E key \in FormationKeys : FormationKey("guest", key)

CommandSpec == BattleInit /\ [][CommandNext]_vars

(***************************************************************************)
(* Deployment by two connected peers: the connection has opened, the guest *)
(* has entered deployment, neither peer has placed a unit yet.             *)
(***************************************************************************)
MaxDeployInputs == 5

DeployInit ==
    /\ game = [p \in Procs |-> NewGame]
    /\ scene = [p \in Procs |-> "deployment"]
    /\ mp = [p \in Procs |-> Connected(p = "host")]
    /\ inbox = [p \in Procs |-> <<>>]
    /\ trace = Quiet
    /\ inputs = MaxInputs - MaxDeployInputs
    /\ ai = NewAI

DeployNext ==
    \E p \in Procs :
        \/ \E type \in DeployTypes : SelectUnitType(p, type)
        \/ \E x \in ClickXs : \E y \in ClickYs : CanvasClick(p, x, y)
        \/ Deliver(p)

DeploySpec == DeployInit /\ [][DeployNext]_vars

(***************************************************************************)
(* A battle left to itself: the game loop of a single process runs for as  *)
(* long as the page is open.  update reads gameTime through Frame modulo   *)
(* THROTTLE_RATE alone, which repeats every ScanPeriod ms of game time:    *)
(* the clock of the engine is kept modulo this period.                     *)
(***************************************************************************)
ScanPeriod == (1000 * THROTTLE_RATE) \div 60

\* the battle as deployment leaves it: a RED cannon placed first or last, a
\* RED infantry unit and a BLUE infantry unit, which the cannon has in range,
\* in its arc and in sight
Deployed(cannonId) ==
    LET Foot == Fielded(1, "INFANTRY", "RED", 300, 200, 0, "NONE",
                        EntityCountOf("INFANTRY"))
        Gun == Fielded(cannonId, "CANNON", "RED", 300, 400, 0, "NONE",
                       EntityCountOf("CANNON"))
        Far == Fielded(2 - cannonId, "INFANTRY", "BLUE", 900, 400, 180, "NONE",
                       EntityCountOf("INFANTRY"))
    IN Registry(IF cannonId = 0 THEN << Gun, Foot, Far >> ELSE << Far, Foot, Gun >>,
                <<>>, 0)

ScanInit ==
    \E cannonId \in {0, 2} :
        /\ game = [p \in Procs |-> IF p = "host" THEN Deployed(cannonId) ELSE NewGame]
        /\ scene = [p \in Procs |-> IF p = "host" THEN "battle" ELSE "start"]
        /\ mp = [p \in Procs |-> NewManager]
        /\ inbox = [p \in Procs |-> <<>>]
        /\ trace = Quiet
        /\ inputs = 0
        /\ ai = NewAI

\* the callbacks explored are those up to the first volley
BeforeFirstVolley ==
    /\ mp["host"].running /\ scene["host"] = "battle"
    /\ \A r \in Range(game["host"].units) : Obj(game["host"], r).canFire

\* one callback of the game loop of the host
ScanTick(dt, rnd) ==
    /\ BeforeFirstVolley
    /\ LET Done(w) ==
               Event([w EXCEPT !.game["host"] =
                         [ClearLog(w.game["host"])
                            EXCEPT !.gameTime = w.game["host"].gameTime % ScanPeriod]],
                     Observed("GameLoop", "host", w.game["host"], Tick(dt),
                              UnitIds(game["host"])))
       IN Done(GameLoopBody(World, "host", dt, rnd))

\* the draws matter in the callback of the first volley alone, the last one
\* explored: they are fixed
FixedRolls == [hits |-> {}, jitter |-> 0, falloff |-> 99, roll1 |-> 100, roll2 |-> 100]

ScanNext == \E dt \in DeltaTimes : ScanTick(dt, FixedRolls)

\* a callback in which no unit moves, tires, reloads, finds a target or
\* fires: it advances the clock and nothing else
IdleTick(dt) ==
    /\ BeforeFirstVolley
    /\ game' = [game EXCEPT !["host"].gameTime = (@ + dt) % ScanPeriod]
    /\ trace' = Observed("GameLoop", "host", NewGame, Tick(dt), UnitIds(game["host"]))
    /\ UNCHANGED <<scene, mp, inbox, inputs, ai>>

\* requestAnimationFrame calls the game loop again after every callback.  Up
\* to the first volley every callback but the last is idle: the fairness of
\* the loop is stated on these.
ScanSpec ==
    ScanInit /\ [][ScanNext]_vars /\ WF_vars(\E dt \in DeltaTimes : IdleTick(dt))

(***************************************************************************)
(* The single-player opponent: AIPerception, AIScoring, AICombat and       *)
(* AIExecutor command the BLUE units of the host's engine.  Game time and  *)
(* the clock of performance.now() are in ms; a score is in 1/100 point.    *)
(* A command carries the rule that queued it (an observation, the code     *)
(* keeps no such field).                                                   *)
(***************************************************************************)
\* AIPerception.buildSnapshot: the units are references into the registry
BuildSnapshot(g) ==
    LET Alive(team) ==
            SelectSeq(g.units, LAMBDA r : Obj(g, r).team = team /\ ~IsDead(Obj(g, r)))
        OfType(units, type) == SelectSeq(units, LAMBDA r : Obj(g, r).type = type)
        Dist2(a, b) == DistSq(Obj(g, a).x, Obj(g, a).y, Obj(g, b).x, Obj(g, b).y)
        \* dist / speed < 3.0, 999 when the speed is 0
        Closing(inf, red) ==
            /\ Obj(g, red).type = "CAVALRY"
            /\ Obj(g, red).speed > 0
            /\ Dist2(inf, red) < 9 * Obj(g, red).speed * Obj(g, red).speed
        Urgency(inf, red) ==
            LET near == {Dist2(inf, red[k]) :
                            k \in {j \in 1..Len(red) : Closing(inf, red[j])}}
            IN CHOOSE d \in near : \A e \in near : d <= e
        RECURSIVE CannonThreats(_, _, _)
        CannonThreats(cannons, red, i) ==
            IF i > Len(cannons) THEN <<>>
            ELSE LET enemies == SelectSeq(red,
                                    LAMBDA r : Dist2(cannons[i], r) < 200 * 200)
                 IN (IF enemies = <<>> THEN <<>>
                     ELSE << [cannon |-> cannons[i], enemies |-> enemies] >>)
                      \o CannonThreats(cannons, red, i + 1)
        RECURSIVE CavalryThreats(_, _, _)
        CavalryThreats(foot, red, i) ==
            IF i > Len(foot) THEN <<>>
            ELSE (IF (\E k \in 1..Len(red) : Closing(foot[i], red[k]))
                       /\ Obj(g, foot[i]).formation # "SQUARE"
                  THEN << [infantry |-> foot[i], urgency |-> Urgency(foot[i], red)] >>
                  ELSE <<>>)
                   \o CavalryThreats(foot, red, i + 1)
        \* Array.prototype.sort by urgency: stable, closest first
        RECURSIVE ByUrgency(_)
        ByUrgency(threats) ==
            IF threats = <<>> THEN <<>>
            ELSE LET first == CHOOSE k \in 1..Len(threats) :
                                 /\ \A j \in 1..Len(threats) :
                                       threats[k].urgency <= threats[j].urgency
                                 /\ \A j \in 1..(k - 1) :
                                       threats[j].urgency > threats[k].urgency
                 IN << threats[first] >> \o ByUrgency(RemoveAt(threats, first))
        AvgX(units) == Quot(SumOver(units, LAMBDA r : Obj(g, r).x, 1), Len(units))
        Line(blue, red) ==
            IF blue = <<>> \/ red = <<>> THEN CANVAS_WIDTH \div 2
            ELSE Quot(AvgX(blue) + AvgX(red), 2)
        Snapshot(blue, red) ==
            [timestamp |-> g.gameTime,
             blueUnits |-> blue, redUnits |-> red,
             blueCannons |-> OfType(blue, "CANNON"),
             cannonThreats |-> CannonThreats(OfType(blue, "CANNON"), red, 1),
             cavalryThreats |-> ByUrgency(CavalryThreats(OfType(blue, "INFANTRY"), red, 1)),
             engagementLine |-> Line(blue, red)]
    IN Snapshot(Alive("BLUE"), Alive("RED"))

\* AIScoring.scoreTarget of the unit for the target; the distance is taken
\* to the pixel below
ScoreTarget(g, unit, target, snapshot) ==
    LET t == Obj(g, target)
        u == Obj(g, unit)
        base == CASE t.type = "CANNON" -> 100
                  [] t.type = "CAVALRY" -> 50
                  [] OTHER -> 30
        nearBlueCannon ==
            \E k \in 1..Len(snapshot.blueCannons) :
                DistSq(t.x, t.y, Obj(g, snapshot.blueCannons[k]).x,
                       Obj(g, snapshot.blueCannons[k]).y) < 300 * 300
        health == IF t.entityCount * 10 < 3 * EntityCountOf(t.type) THEN 40
                  ELSE IF t.entityCount * 10 < 6 * EntityCountOf(t.type) THEN 20
                  ELSE 0
        ready == IF IsRanged(u.type) /\ u.canFire THEN 20 ELSE 0
    IN Max(0, 100 * (base + (IF nearBlueCannon THEN 50 ELSE 0) + health + ready)
                - 5 * ISqrt(DistSq(u.x, u.y, t.x, t.y)))

\* AICombat.makeDecisions: the combat module and the queue of the executor
\* after the pass
MakeDecisions(g, a, snapshot) ==
    LET Cmd(type, r, formation, x, y, rule) ==
            [type |-> type, unitId |-> Obj(g, r).id, unit |-> r,
             formation |-> formation, targetX |-> x, targetY |-> y, rule |-> rule]
        Each(s, F(_)) ==
            LET RECURSIVE From(_)
                From(i) == IF i > Len(s) THEN <<>> ELSE F(s[i]) \o From(i + 1)
            IN From(1)
        \* the first of the closest
        Nearest(units, to) ==
            LET d(k) == DistSq(Obj(g, units[k]).x, Obj(g, units[k]).y,
                               Obj(g, to).x, Obj(g, to).y)
            IN units[CHOOSE k \in 1..Len(units) :
                        /\ \A j \in 1..Len(units) : d(k) <= d(j)
                        /\ \A j \in 1..(k - 1) : d(j) > d(k)]
        \* the first of the best scored
        Best(unit) ==
            LET red == snapshot.redUnits
                s(k) == ScoreTarget(g, unit, red[k], snapshot)
            IN red[CHOOSE k \in 1..Len(red) :
                      /\ \A j \in 1..Len(red) : s(k) >= s(j)
                      /\ \A j \in 1..(k - 1) : s(j) < s(k)]
        handleCannonDefense ==
            Each(snapshot.cannonThreats,
                 LAMBDA threat :
                    LET free == SelectSeq(snapshot.blueUnits,
                                    LAMBDA r : /\ Obj(g, r).type = "CAVALRY"
                                               /\ ~Obj(g, r).isMeleeLocked)
                    IN IF free = <<>> THEN <<>>
                       ELSE << Cmd("move", Nearest(free, threat.cannon), "NONE",
                                   Obj(g, threat.enemies[1]).x,
                                   Obj(g, threat.enemies[1]).y, "cannonDefense") >>)
        handleCavalryThreats ==
            Each(snapshot.cavalryThreats,
                 LAMBDA threat :
                    IF Obj(g, threat.infantry).formation # "SQUARE"
                    THEN << Cmd("formation", threat.infantry, "SQUARE", Null, Null,
                                "cavalryThreat") >>
                    ELSE <<>>)
        handleOpeningSetup ==
            Each(SelectSeq(snapshot.blueUnits, LAMBDA r : Obj(g, r).type = "INFANTRY"),
                 LAMBDA inf :
                    IF Obj(g, inf).formation # "SQUARE"
                         /\ Abs(snapshot.engagementLine - 100 - Obj(g, inf).x) > 50
                    THEN << Cmd("move", inf, "NONE", snapshot.engagementLine - 100,
                                Obj(g, inf).y, "openingSetup") >>
                    ELSE <<>>)
        handleCavalryAction(cavalry, target) ==
            IF Obj(g, target).type = "INFANTRY" /\ Obj(g, target).formation = "SQUARE"
            THEN << Cmd("move", cavalry, "NONE", CANVAS_WIDTH - 200, Obj(g, cavalry).y,
                        "mainEngagement") >>
            ELSE << Cmd("move", cavalry, "NONE", Obj(g, target).x, Obj(g, target).y,
                        "mainEngagement") >>
        handleMainEngagement ==
            Each(snapshot.blueUnits,
                 LAMBDA blueUnit :
                    IF \/ Obj(g, blueUnit).isMeleeLocked
                       \/ Obj(g, blueUnit).formation = "SQUARE"
                       \/ snapshot.redUnits = <<>>
                       \/ Obj(g, blueUnit).type # "CAVALRY"
                    THEN <<>>
                    ELSE handleCavalryAction(blueUnit, Best(blueUnit)))
        Decided(timer, state) ==
            [a EXCEPT !.stateTimer = timer,
                      !.currentState = state,
                      !.queue = a.queue
                                  \o handleCannonDefense
                                  \o handleCavalryThreats
                                  \o (IF state = "OPENING_SETUP" THEN handleOpeningSetup
                                      ELSE handleMainEngagement)]
        Timed(timer) ==
            Decided(timer, IF timer > 5000 THEN "MAIN_ENGAGEMENT" ELSE a.currentState)
    IN Timed(a.stateTimer + snapshot.timestamp)

\* AIExecutor.execute: select the units of the command, act, deselect
Execute(g, cmd) ==
    LET Selected(g1) ==
            [PutObj(g1, cmd.unit, [Obj(g1, cmd.unit) EXCEPT !.isSelected = TRUE])
               EXCEPT !.selectedUnits = << cmd.unit >>]
    IN CASE cmd.type = "move" ->
              ClearSelection(MoveSelectedUnits(Selected(ClearSelection(g)),
                                               cmd.targetX, cmd.targetY))
         [] cmd.type = "formation" ->
              ClearSelection(SetFormationForSelected(Selected(ClearSelection(g)),
                                                     cmd.formation))
         [] cmd.type = "select" -> Selected(ClearSelection(g))
         [] OTHER -> g

\* executeQueue with no test of the cooldown
ExecuteQueueWithoutCooldown(g, queue, unitCooldowns, now) ==
    LET RECURSIVE Shift(_, _, _, _)
        Shift(g1, cooldowns, i, executed) ==
            IF i > Len(queue)
            THEN [game |-> g1, unitCooldowns |-> cooldowns, executed |-> executed]
            ELSE Shift(Execute(g1, queue[i]), (queue[i].unitId :> now) @@ cooldowns,
                       i + 1, Append(executed, queue[i]))
    IN Shift(g, unitCooldowns, 1, <<>>)

\* AIExecutor.executeQueue at performance.now() = now: the engine, the
\* cooldowns and the commands executed, in order; the queue is left empty
ExecuteQueue(g, queue, unitCooldowns, now) ==
    LET RECURSIVE Shift(_, _, _, _)
        Shift(g1, cooldowns, i, executed) ==
            IF i > Len(queue)
            THEN [game |-> g1, unitCooldowns |-> cooldowns, executed |-> executed]
            ELSE IF /\ queue[i].unitId \in DOMAIN cooldowns
                    /\ now - cooldowns[queue[i].unitId] < 500
                 THEN Shift(g1, cooldowns, i + 1, executed)
                 ELSE Shift(Execute(g1, queue[i]),
                            (queue[i].unitId :> now) @@ cooldowns,
                            i + 1, Append(executed, queue[i]))
    IN Shift(g, unitCooldowns, 1, <<>>)

(***************************************************************************)
(* The single-player game loop.  Each callback advances the engine and     *)
(* then lets the opponent make one pass: snapshot, decisions, execution    *)
(* of the queue.  The clock advances by the time of the callback.          *)
(***************************************************************************)
\* one callback of the game loop against the opponent.  A pass leaves the
\* engine, the opponent and what it queued and executed.
AITick(dt, rnd) ==
    /\ mp["host"].running /\ scene["host"] = "battle"
    /\ inputs < MaxInputs
    /\ LET Outcome(g, now, decided, done) ==
               [game |-> done.game,
                ai |-> [decided EXCEPT !.queue = <<>>,
                                       !.unitCooldowns = done.unitCooldowns,
                                       !.clock = now],
                data |-> [type |-> "pass", now |-> now, timestamp |-> g.gameTime,
                          state |-> decided.currentState,
                          cooldowns |-> ai.unitCooldowns,
                          queued |-> decided.queue, executed |-> done.executed]]
           Decided(g, now, decided) ==
               Outcome(g, now, decided,
                       ExecuteQueue(g, decided.queue, ai.unitCooldowns, now))
           AIPass(g, now) == Decided(g, now, MakeDecisions(g, ai, BuildSnapshot(g)))
           Passed(w, g, pass) ==
               /\ game' = [w.game EXCEPT !["host"] = ClearLog(pass.game)]
               /\ scene' = w.scene
               /\ mp' = w.mp
               /\ inbox' = w.inbox
               /\ ai' = pass.ai
               /\ trace' = Observed("AITick", "host", g, pass.data, UnitIds(game["host"]))
               /\ inputs' = inputs + 1
           Updated(w, g) ==
               IF g.threw
               THEN Passed(w, g, [game |-> g, ai |-> [ai EXCEPT !.clock = ai.clock + dt],
                                  data |-> Tick(dt)])
               ELSE Passed(w, g, AIPass(g, ai.clock + dt))
           Called(w) == Updated(w, w.game["host"])
       IN Called(GameLoopBody(World, "host", dt, rnd))

\* a new game against the opponent: GameEngine.restart, AICombat.reset and
\* AIExecutor.reset
AIReset ==
    /\ scene["host"] = "battle"
    /\ inputs < MaxInputs
    /\ game' = [game EXCEPT !["host"] = Restart(game["host"])]
    /\ ai' = [NewAI EXCEPT !.clock = ai.clock]
    /\ trace' = Observed("AIReset", "host", NewGame, NoData, UnitIds(game["host"]))
    /\ inputs' = inputs + 1
    /\ UNCHANGED <<scene, mp, inbox>>

\* the battles the opponent is started in, at game time 0: RED cavalry
\* ordered to charge the BLUE infantry; RED cavalry close to the BLUE cannon,
\* the BLUE cavalry in reserve
Skirmishes ==
    LET Charges ==
            [Fielded(0, "CAVALRY", "RED", 700, 400, 0, "NONE", Full("CAVALRY"))
               EXCEPT !.targetX = 900, !.targetY = 400]
        Foot == Fielded(1, "INFANTRY", "BLUE", 900, 400, 180, "NONE", Full("INFANTRY"))
        Raids == Fielded(0, "CAVALRY", "RED", 750, 400, 0, "NONE", Full("CAVALRY"))
        Gun == Fielded(1, "CANNON", "BLUE", 900, 400, 180, "NONE", Full("CANNON"))
        Reserve == Fielded(2, "CAVALRY", "BLUE", 1100, 700, 180, "NONE", Full("CAVALRY"))
    IN {Registry(<< Charges, Foot >>, <<>>, 0),
        Registry(<< Raids, Gun, Reserve >>, <<>>, 0)}

AIInit ==
    \E b \in Skirmishes :
        /\ game = [p \in Procs |-> IF p = "host" THEN b ELSE NewGame]
        /\ scene = [p \in Procs |-> IF p = "host" THEN "battle" ELSE "start"]
        /\ mp = [p \in Procs |-> NewManager]
        /\ inbox = [p \in Procs |-> <<>>]
        /\ trace = Quiet
        /\ inputs = MaxInputs - MaxAITicks
        /\ ai = NewAI

\* the callbacks explored are of the longest time step
AINext ==
    \/ \E rnd \in RollsFor(game["host"], MAX_DELTA_TIME) : AITick(MAX_DELTA_TIME, rnd)
    \/ AIReset

AISpec == AIInit /\ [][AINext]_vars

(***************************************************************************)
(* Properties.                                                             *)
(***************************************************************************)
\* C1: no volley is resolved against a target whose entity count is 0: a
\* current target that has died (in an earlier tick, by a projectile impact
\* of the same tick, or by another unit's volley earlier in the same
\* auto-fire pass) is cleared before the auto-fire step uses it.  trace holds
\* the volleys the last update call resolved, each with the entity count its
\* target had when resolveMusketFire was entered.
C1_NoVolleyAtDeadTarget ==
    \A i \in 1..Len(trace.volleys) : trace.volleys[i].targetCount > 0

\* the engine of the process whose handler ran last
Ran == game[trace.proc]
\* the last step was a game-loop callback whose update call returned
Advanced == trace.kind = "GameLoop" /\ ~trace.threw
\* the ids of the units that a volley, an impact or a melee of the last
\* update call left with no entity
Fallen ==
    {trace.volleys[i].target : i \in {k \in 1..Len(trace.volleys) :
         trace.volleys[k].hit /\ trace.volleys[k].targetCount > 0}}
      \cup {trace.impacts[i].target : i \in 1..Len(trace.impacts)}
      \cup {trace.melees[i].a : i \in {k \in 1..Len(trace.melees) :
                                          trace.melees[k].aAfter = 0}}
      \cup {trace.melees[i].b : i \in {k \in 1..Len(trace.melees) :
                                          trace.melees[k].bAfter = 0}}
Removed == (Fallen \cap trace.before) \ UnitIds(Ran)

\* C2: at the end of an update call that returned, a registry that holds
\* units of one team only has gameOver set and that team as the winner, RED
\* and BLUE alike; so the match is decided in the callback that removes the
\* last unit of the losing team.
C2_WinDecidedInTick ==
    Advanced =>
        /\ TeamCount(Ran, "RED") = 0 /\ TeamCount(Ran, "BLUE") > 0
              => Ran.gameOver /\ Ran.winner = "BLUE"
        /\ TeamCount(Ran, "BLUE") = 0 /\ TeamCount(Ran, "RED") > 0
              => Ran.gameOver /\ Ran.winner = "RED"

\* the callback that removed the last BLUE unit left RED the winner
C2_LastUnitRemoved ==
    /\ Advanced /\ Removed # {}
    /\ TeamCount(Ran, "BLUE") = 0 /\ TeamCount(Ran, "RED") > 0
    /\ Ran.gameOver /\ Ran.winner = "RED"

NoDeadListed(m) ==
    m.type = "GAME_STATE_SYNC" => \A k \in 1..Len(m.units) : m.units[k].entityCount > 0

\* C3: at the end of an update call that returned, neither the registry nor
\* the selection holds a unit whose entity count is 0, and no
\* GAME_STATE_SYNC in flight lists a unit whose entity count is 0.
C3_NoDeadUnitKept ==
    /\ Advanced =>
          /\ \A i \in 1..Len(Ran.units) : ~IsDead(Obj(Ran, Ran.units[i]))
          /\ \A i \in 1..Len(Ran.selectedUnits) :
                 ~IsDead(Obj(Ran, Ran.selectedUnits[i]))
    /\ \A p \in Procs : \A i \in 1..Len(inbox[p]) : NoDeadListed(inbox[p][i])

\* the host removed a unit in the callback that sent the snapshot in flight
C3_RemovedAndSent ==
    /\ Advanced /\ trace.proc = "host" /\ Removed # {}
    /\ inbox["guest"] # <<>>
    /\ inbox["guest"][Len(inbox["guest"])].type = "GAME_STATE_SYNC"
    /\ inbox["guest"][Len(inbox["guest"])].gameTime = game["host"].gameTime

SnapshotIds(m) == {m.units[i].id : i \in 1..Len(m.units)}
\* the last step handed a snapshot with pairwise distinct unit ids to the
\* handler of a peer that is not the host
Merged ==
    /\ trace.kind = "Deliver" /\ trace.data.type = "GAME_STATE_SYNC"
    /\ ~mp[trace.proc].isHost
    /\ Cardinality(SnapshotIds(trace.data)) = Len(trace.data.units)

\* C4: after mergeRemoteState(s), for a snapshot s with pairwise distinct
\* unit ids, the ids in the registry of the guest are exactly the ids in
\* s.units: a unit of s that was absent is created with the remote id and a
\* local unit whose id is absent from s is deleted.
C4_MergeMatchesSnapshot ==
    Merged => UnitIds(Ran) = SnapshotIds(trace.data)

\* the merge created a unit the guest did not hold, under the remote id
C4_CreatedWithRemoteId ==
    /\ Merged
    /\ SnapshotIds(trace.data) \ trace.before # {}
    /\ UnitIds(Ran) = SnapshotIds(trace.data)

Perms(n) == {f \in [1..n -> 1..n] : \A i, j \in 1..n : f[i] = f[j] => i = j}
SyncedFields ==
    {"x", "y", "vx", "vy", "angle", "targetX", "targetY", "entityCount",
     "formation", "isReloading", "reloadProgress", "exhaustion", "isMeleeLocked",
     "currentTargetId"}
\* snapshot s merged into a fresh registry and serialized again lists the
\* units of s with the same value of every field of fields
RoundTripKeeps(s, fields) ==
    LET back == SerializeGameState(MergeRemoteState(NewGame, s))
    IN /\ Len(back.units) = Len(s.units)
       /\ \A i \in 1..Len(s.units) :
             /\ back.units[i].id = s.units[i].id
             /\ \A f \in fields : back.units[i][f] = s.units[i][f]
Reordered(s, perm) ==
    [s EXCEPT !.units = [i \in 1..Len(s.units) |-> s.units[perm[i]]]]

\* C5: the snapshot of the registry of the host, with its units in any
\* order, merged into a fresh registry gives every unit the same position,
\* velocity, facing, movement target, entity count, formation, reload state,
\* exhaustion, melee lock and current-target id as the original unit.
C5_RoundTrip ==
    \A perm \in Perms(Len(game["host"].units)) :
        RoundTripKeeps(Reordered(SerializeGameState(game["host"]), perm), SyncedFields)

Deployments(p) ==
    {inbox[p][i] : i \in {k \in 1..Len(inbox[p]) : inbox[p][k].type = "DEPLOY_UNIT"}}

\* C6: a DEPLOY_UNIT event in flight whose unit id is in the registry of its
\* receiver leaves the engine of the receiver (units, their fields, the id
\* counter) as it is, and applying any event in flight twice gives the state
\* that applying it once gives.
C6_DeploymentIdempotent ==
    \A p \in Procs : \A m \in Deployments(p) :
        /\ m.unit.id \in UnitIds(game[p]) => ApplyDeploymentEvent(game[p], m) = game[p]
        /\ ApplyDeploymentEvent(ApplyDeploymentEvent(game[p], m), m)
              = ApplyDeploymentEvent(game[p], m)

\* an event in flight carries an id its receiver holds already, and another
\* one an id that is new to its receiver
C6_DuplicateInFlight ==
    /\ \E p \in Procs : \E m \in Deployments(p) : m.unit.id \in UnitIds(game[p])
    /\ \E p \in Procs : \E m \in Deployments(p) : m.unit.id \notin UnitIds(game[p])

\* C7: no two units in the registry of a peer have the same id, whatever the
\* interleaving of local placements, received DEPLOY_UNIT events and
\* snapshot merges.
C7_UniqueIds ==
    \A p \in Procs : Cardinality(UnitIds(game[p])) = Len(game[p].units)

\* C8: every createUnit call of a process returns an id greater than every
\* id createUnit returned before in that process, also after restart() and
\* after a transition back to the deployment scene.
C8_MonotonicIds ==
    \A p \in Procs :
        game[p].issuedLast # Null => game[p].issuedLast > game[p].issuedPrevMax

Syncs(p) ==
    {inbox[p][i] : i \in {k \in 1..Len(inbox[p]) : inbox[p][k].type = "GAME_STATE_SYNC"}}
\* the step appends a GAME_STATE_SYNC to the messages in flight to q
SyncSentTo(q) ==
    /\ Len(inbox'[q]) > Len(inbox[q])
    /\ inbox'[q][Len(inbox'[q])].type = "GAME_STATE_SYNC"
SentByHostInBattle ==
    \A q \in Procs :
        SyncSentTo(q) =>
            /\ mp[Other(q)].isHost /\ mp[Other(q)].isMultiplayer
            /\ mp[Other(q)].isConnected /\ scene[Other(q)] = "battle"
\* the step hands a GAME_STATE_SYNC to the handler of its receiver
MergedByGuest ==
    /\ trace'.kind = "Deliver" /\ trace'.data.type = "GAME_STATE_SYNC"
    /\ game'[trace'.proc] # game[trace'.proc]
    => ~mp[trace'.proc].isHost
\* handleRemoteData of a host leaves its engine as it is for every snapshot
\* in flight
HostUntouched ==
    \A p \in Procs : \A q \in Procs : \A m \in Syncs(q) :
        mp[p].isHost => HandleRemoteData(World, p, m).game[p] = game[p]

\* C9: a GAME_STATE_SYNC is sent only by a peer that is the host, in
\* multiplayer mode, connected and in the battle scene; a received
\* GAME_STATE_SYNC changes the engine of a peer that is not the host only,
\* and the handler of the host leaves its engine as it is for any snapshot.
C9_HostAuthoritative ==
    /\ [][SentByHostInBattle /\ MergedByGuest]_vars
    /\ []HostUntouched

\* a snapshot is in flight that no longer equals the engine of the host
\* that sent it
C9_StaleSnapshotInFlight ==
    /\ mp["host"].isHost
    /\ \E m \in Syncs("guest") : MergeRemoteState(game["host"], m) # game["host"]

TransitionInFlight(p) ==
    \E i \in 1..Len(inbox[p]) : inbox[p][i].type = "SCENE_TRANSITION"
\* the step hands SCENE_TRANSITION{battle} to the handler of p
TransitionDelivered(p) ==
    /\ trace'.kind = "Deliver" /\ trace'.proc = p
    /\ trace'.data.type = "SCENE_TRANSITION"
\* in deployment the receiver enters battle; in battle it is left as it is
\* and sends nothing
TransitionApplied ==
    \A p \in Procs :
        TransitionDelivered(p) =>
            /\ scene[p] = "deployment" => scene'[p] = "battle"
            /\ scene[p] = "battle" =>
                   /\ scene'[p] = "battle" /\ game'[p] = game[p] /\ mp'[p] = mp[p]
                   /\ inbox'[Other(p)] = inbox[Other(p)]
\* a SCENE_TRANSITION is sent by a peer that is in battle after the step
TransitionSentFromBattle ==
    \A q \in Procs :
        /\ Len(inbox'[q]) > Len(inbox[q])
        /\ inbox'[q][Len(inbox'[q])].type = "SCENE_TRANSITION"
        => scene'[Other(q)] = "battle"
\* no SCENE_TRANSITION is in flight on an open or opening connection
TransitionsSettled ==
    \A p \in Procs : TransitionInFlight(p) => mp[p].conn = "closed"

\* C10: a connected peer that receives SCENE_TRANSITION{battle} in the
\* deployment scene enters battle and one in battle is left unchanged; after
\* a peer started the battle, that peer is in battle and the other one gets
\* there unless its connection closes; and the exchange of SCENE_TRANSITION
\* messages ends (the echo of the receiver is not applied again).
C10_SceneTransitionProtocol ==
    /\ [][TransitionApplied /\ TransitionSentFromBattle]_vars
    /\ \A p \in Procs :
          TransitionInFlight(p) ~> (scene[p] = "battle" \/ mp[p].conn = "closed")
    /\ <>[]TransitionsSettled

\* the receiver entered battle on a SCENE_TRANSITION and its echo is in
\* flight to the peer that started the battle
C10_EchoInFlight ==
    /\ trace.kind = "Deliver" /\ trace.data.type = "SCENE_TRANSITION"
    /\ scene["host"] = "battle" /\ scene["guest"] = "battle"
    /\ TransitionInFlight(Other(trace.proc))

\* the step is the disconnect of p: its data connection closes
Disconnects(p) == mp[p].conn # "closed" /\ mp'[p].conn = "closed"
\* the disconnect lifts the input restriction and leaves the engine alone
DisconnectKeepsState ==
    \A p \in Procs :
        Disconnects(p) =>
            /\ mp'[p].playerTeam = "none"
            /\ game'[p].units = game[p].units /\ game'[p].objs = game[p].objs
            /\ game'[p].projectiles = game[p].projectiles
            /\ game'[p].gameTime = game[p].gameTime
            /\ game'[p].gameOver = game[p].gameOver
            /\ game'[p].winner = game[p].winner
\* no GAME_STATE_SYNC is sent by a peer whose connection has closed
NoSyncAfterDisconnect ==
    \A q \in Procs : SyncSentTo(q) => mp[Other(q)].conn # "closed"

\* C11: after the disconnect of a peer no GAME_STATE_SYNC is sent by it in
\* any later callback, the disconnect sets playerTeam to null and changes
\* nothing in the registry, the projectiles, gameTime, gameOver or winner,
\* and playerTeam stays null from then on.
C11_DisconnectHaltsSync ==
    /\ [][DisconnectKeepsState /\ NoSyncAfterDisconnect]_vars
    /\ [](\A p \in Procs : mp[p].conn = "closed" => mp[p].playerTeam = "none")

\* a host whose connection closed during the battle ran a game-loop
\* callback afterwards, with units in its registry
C11_HostTicksAfterDisconnect ==
    /\ trace.kind = "GameLoop" /\ trace.proc = "host"
    /\ mp["host"].isHost /\ mp["host"].conn = "closed"
    /\ game["host"].units # <<>> /\ game["host"].gameTime >= SYNC_INTERVAL

\* the collision circle of unit f meets the segment from (x1, y1) to (x2, y2):
\* the squared distance of its centre to the nearest point of the segment is
\* at most the square of its own radius
CircleMeetsSegment(f, x1, y1, x2, y2) ==
    LET r2 == CollisionRadiusOf(f.type) * CollisionRadiusOf(f.type)
        len2 == DistSq(x1, y1, x2, y2)
        dot == (f.x - x1) * (x2 - x1) + (f.y - y1) * (y2 - y1)
        cross == (f.x - x1) * (y2 - y1) - (f.y - y1) * (x2 - x1)
    IN IF dot <= 0 THEN DistSq(f.x, f.y, x1, y1) <= r2
       ELSE IF dot >= len2 THEN DistSq(f.x, f.y, x2, y2) <= r2
       ELSE cross * cross <= r2 * len2

\* some living unit of the shooter's team, other than the shooter and the
\* target, stands in the line of fire
FiredThrough(g, sref, tref) ==
    \E i \in 1..Len(g.units) :
        LET f == Obj(g, g.units[i])
        IN /\ f.team = Obj(g, sref).team /\ ~IsDead(f)
           /\ g.units[i] # sref /\ g.units[i] # tref
           /\ CircleMeetsSegment(f, Obj(g, sref).x, Obj(g, sref).y,
                                 Obj(g, tref).x, Obj(g, tref).y)

\* the volley v was aimed, on the positions at the moment of firing, at a unit
\* of the other team in range, in the arc and in clear sight
Gated(v) ==
    LET shooter == Obj(v.field, v.sref)
        target == Obj(v.field, v.tref)
    IN /\ target.team # shooter.team
       /\ InRange(shooter, target)
       /\ IsInFireArc(shooter, target)
       /\ ~FiredThrough(v.field, v.sref, v.tref)

\* C12: whenever a ranged unit fires in a tick, its target is a unit of the
\* opposing team that, on the positions at the moment of firing, is within the
\* shooter's fire range, inside its fire arc and in clear line of sight: no
\* volley is fired through a living friendly unit.
C12_FireGating ==
    trace.kind = "GameLoop" =>
        \A k \in 1..Len(trace.volleys) : Gated(trace.volleys[k])

\* C13: for every shooter and target of a registry, checkLOS reports no line
\* of sight if and only if some living unit of the shooter's team, other than
\* the shooter and the target, has its collision circle, of its own radius,
\* meeting the segment from the shooter to the target.
C13_LineOfSightReference ==
    \A p \in Procs :
        \A a, b \in Range(game[p].units) :
            a # b =>
                (~HasLOS(game[p], Obj(game[p], a), Obj(game[p], b))
                    <=> FiredThrough(game[p], a, b))

\* the reload duration of a unit of this type under the formation modifier
\* and the exhaustion multiplier, in ms
ReloadDue(type, fireRateBonus, reloadMultiplier) ==
    (((ReloadDurationOf(type) * fireRateBonus) \div 100)
        * (reloadMultiplier \div 1000)) \div 1000

\* the exhaustion multipliers of the shooter of volley v at the moment of
\* firing: before the volley and after the exertion of a volley that hits
MultipliersAtFiring(v) ==
    {Obj(v.field, v.sref).reloadMultiplier,
     AddCombatExhaustion(Obj(v.field, v.sref)).reloadMultiplier}

\* C14: the reload that starts with a volley lasts the base duration of the
\* unit's type times the formation modifier times the exhaustion multiplier
\* at the moment of firing, however many volleys the unit fired before, and
\* never more than 1.5 times the base duration.
C14_ReloadNotAccumulated ==
    Advanced =>
        \A k \in 1..Len(trace.volleys) :
            LET v == trace.volleys[k]
            IN v.sref \in Refs(Ran) =>
                 /\ \E m \in MultipliersAtFiring(v) :
                        Obj(Ran, v.sref).reloadDuration
                            = ReloadDue(v.type, Obj(Ran, v.sref).fireRateBonus, m)
                 /\ 2 * Obj(Ran, v.sref).reloadDuration <= 3 * ReloadDurationOf(v.type)

\* the melee m was fought by a cavalry unit and an infantry unit
CavalryFirst(m) == m.first.type = "CAVALRY" /\ m.second.type = "INFANTRY"
CavalrySecond(m) == m.second.type = "CAVALRY" /\ m.first.type = "INFANTRY"
Rider(m) == IF CavalryFirst(m) THEN m.first ELSE m.second
Foot(m) == IF CavalryFirst(m) THEN m.second ELSE m.first

\* the entities the two sides lost in the melee m, in 1/100 entity
LostByFirst(m) == m.aBefore - m.aAfter
LostBySecond(m) == m.bBefore - m.bAfter
LostByRider(m) == IF CavalryFirst(m) THEN LostByFirst(m) ELSE LostBySecond(m)
LostByFoot(m) == IF CavalryFirst(m) THEN LostBySecond(m) ELSE LostByFirst(m)

\* the damages of the melee m, of the first and of the second unit, when the
\* first unit's damage carries the factor k1 and the second's the factor k2
\* on top of the base damage, the direction, the momentum and the exhaustion
DamagesWith(m, k1, k2) ==
    MeleeDamages(m.first, m.second, MeleeBase(m.first, m.roll1) * k1,
                 MeleeBase(m.second, m.roll2) * k2)

\* C15: a cavalry unit slower than its charge speed that fights an infantry
\* unit not in SQUARE deals its damage with a cavalry multiplier of exactly
\* 1.0: neither the charge bonus nor the factor 5 of the decisive charge.
C15_SpentCharge ==
    Advanced =>
        \A k \in 1..Len(trace.melees) :
            LET m == trace.melees[k]
            IN (/\ CavalryFirst(m) \/ CavalrySecond(m)
                /\ Rider(m).speed < CAVALRY_CHARGE_SPEED
                /\ Foot(m).formation # "SQUARE")
                 => LostByFoot(m)
                      = Min(Foot(m).entityCount,
                            DamagesWith(m, 1, 1)[IF CavalryFirst(m) THEN 1 ELSE 2])

\* a cavalry unit has fought, in either order, an infantry unit in SQUARE
SquareCharged(m) ==
    /\ CavalryFirst(m) \/ CavalrySecond(m)
    /\ Foot(m).formation = "SQUARE"

C17_DirectionalMultiplier ==
    \A p \in Procs :
        \A a, d \in Range(game[p].units) :
            a # d =>
                LET mult == CalculateDirectionalMultiplier(Obj(game[p], a),
                                                           Obj(game[p], d))
                IN /\ mult \in {FRONT_MULTIPLIER, FLANK_MULTIPLIER, REAR_MULTIPLIER}
                   /\ Obj(game[p], d).formation = "SQUARE" => mult = FRONT_MULTIPLIER

\* the guest, whose formations all come from snapshots, has just merged one
\* with a square whose rear an enemy stands in
C17_MergedSquareTakenInRear ==
    /\ trace.kind = "Deliver" /\ trace.proc = "guest"
    /\ trace.data.type = "GAME_STATE_SYNC"
    /\ \E a, d \in Range(game["guest"].units) :
          /\ Obj(game["guest"], d).formation = "SQUARE"
          /\ Obj(game["guest"], a).team # Obj(game["guest"], d).team
          /\ CalculateDirectionalMultiplierByFacing(Obj(game["guest"], a),
                                                    Obj(game["guest"], d))
                = REAR_MULTIPLIER

\* the entities the target of the volley v loses, in 1/100 entity, when v hits
\* it on the positions of the moment of firing and in the given formation
VolleyLoss(v, formation) ==
    LET g == [NewGame EXCEPT !.units = v.field.units,
                             !.audioManager = v.field.audioManager,
                             !.objs = [v.field.objs EXCEPT
                                         ![v.tref] = SetFormation(@, formation)]]
    IN Obj(g, v.tref).entityCount
         - Obj(ResolveMusketFire(g, v.sref, v.tref, TRUE, 0), v.tref).entityCount

\* C18: a musket volley that hits a unit in COLUMN takes 1.5 times the
\* entities the same volley, of the same shooter from the same place, takes
\* from the same unit in no formation.
C18_ColumnVulnerability ==
    Advanced =>
        \A k \in 1..Len(trace.volleys) :
            LET v == trace.volleys[k]
            IN (/\ v.type = "INFANTRY" /\ v.hit
                /\ Obj(v.field, v.tref).formation = "COLUMN"
                /\ 3 * VolleyLoss(v, "NONE") <= 2 * v.targetCount)
                 => 2 * VolleyLoss(v, "COLUMN") = 3 * VolleyLoss(v, "NONE")

\* the engine at the moment of the volley v
AtFiring(v) ==
    [NewGame EXCEPT !.units = v.field.units, !.objs = v.field.objs,
                    !.audioManager = v.field.audioManager]

\* C19: a firing cannon never reduces its target's entity count in the fire
\* step and always adds exactly one projectile to the registry, whatever the
\* hit roll and with or without an audio manager in the engine.
C19_CannonNeverInstant ==
    Advanced =>
        \A k \in 1..Len(trace.volleys) :
            LET v == trace.volleys[k]
                Fired(hit) == ResolveMusketFire(AtFiring(v), v.sref, v.tref, hit, 0)
            IN v.type = "CANNON" =>
                 /\ ~v.hit
                 /\ \A hit \in BOOLEAN :
                       /\ Obj(Fired(hit), v.tref).entityCount = v.targetCount
                       /\ Len(Fired(hit).projectiles) = 1

\* the step is an update call of p that ran to its end
Ticks(p) ==
    /\ trace'.kind = "GameLoop" /\ trace'.proc = p /\ ~trace'.threw
    /\ ~game[p].gameOver

\* the projectiles of p after Projectile.update of this callback
Flown(p) ==
    [i \in 1..Len(game[p].projectiles) |->
        ProjectileMoved(game[p].projectiles[i], trace'.data.dt)]

\* the balls the volleys of the callback put into the registry
Spawned ==
    {k \in 1..Len(trace'.volleys) :
        trace'.volleys[k].type = "CANNON" /\ trace'.volleys[k].field.audioManager}

\* every impact is that of a ball in range and in the playfield on a living
\* unit of the other team
LawfulImpacts ==
    \A k \in 1..Len(trace'.impacts) :
        LET m == trace'.impacts[k]
        IN /\ ~ProjectileSpent(m.ball)
           /\ m.victim.team # m.ball.team
           /\ m.victim.entityCount > 0

\* the registry loses one projectile for every impact and every ball out of
\* range or out of the playfield, and keeps none of them
RemovedInTick(p) ==
    /\ Len(game'[p].projectiles)
         = Len(game[p].projectiles) + Cardinality(Spawned) - Len(trace'.impacts)
             - Cardinality({i \in 1..Len(game[p].projectiles) :
                               ProjectileSpent(Flown(p)[i])})
    /\ \A i \in 1..Len(game[p].projectiles) :
          ProjectileSpent(Flown(p)[i]) => Flown(p)[i] \notin Range(game'[p].projectiles)
    /\ \A k \in 1..Len(trace'.impacts) :
          trace'.impacts[k].ball \notin Range(game'[p].projectiles)

\* C20: a projectile damages at most one unit, a living one of the other
\* team, and leaves the registry in the callback in which it hits, exceeds
\* its range or leaves the playfield, without damaging anything in the last
\* two cases.
C20_ProjectileLifetime ==
    [][\A p \in Procs : Ticks(p) => LawfulImpacts /\ RemovedInTick(p)]_vars

\* the only ball of the registry has hit a unit and is gone
C20_BallConsumed ==
    /\ Advanced /\ Len(trace.impacts) = 1
    /\ trace.impacts[1].damage > 0
    /\ Ran.projectiles = <<>>

\* C21: in every state, in both processes, the exhaustion of every unit is
\* in [0, 100] (here in 1/1000 point), whatever callbacks, volleys, melee
\* contacts, formation commands and merges have happened.
C21_ExhaustionBounded ==
    \A p \in Procs : \A r \in Range(game[p].units) :
        /\ Obj(game[p], r).exhaustion >= 0
        /\ Obj(game[p], r).exhaustion <= EXHAUSTION_MAX * 1000

\* a unit less than one combat increment from the maximum has fired a
\* volley that hit, and a unit that kept marching is at the maximum too
C21_ClampedAtMaximum ==
    /\ Advanced
    /\ \E i \in 1..Len(trace.volleys) :
          LET v == trace.volleys[i]
          IN /\ v.hit
             /\ v.field.objs[v.sref].exhaustion + EXHAUSTION_COMBAT_RATE
                  > EXHAUSTION_MAX * 1000
             /\ Ran.objs[v.sref].exhaustion = EXHAUSTION_MAX * 1000
             /\ Ran.objs[v.tref].speed > 10
             /\ Ran.objs[v.tref].exhaustion = EXHAUSTION_MAX * 1000

\* C22: at the end of every callback whose update call returned, the speed,
\* accuracy and reload multipliers of every registry unit are 1 - 0.5 r,
\* 1 - 0.3 r and 1 + 0.5 r for its exhaustion ratio r at that moment.
C22_MultipliersTrackExhaustion ==
    Advanced =>
        \A r \in Range(Ran.units) :
            Obj(Ran, r) = ApplyExhaustionPenalties(Obj(Ran, r))

\* accuracy bonus, reload-rate bonus, movement bonus, movement penalty,
\* vulnerability, damage bonus, directional defense, cavalry defense and
\* max speed of a unit of the type in the formation
ModifiersOf(type, formation) ==
    CASE formation = "LINE" ->
           << LINE_ACCURACY_BONUS, LINE_RELOAD_BONUS, 100, LINE_MOVEMENT_PENALTY,
              100, LINE_DAMAGE_BONUS, FALSE, 1, BaseMaxSpeedOf(type) >>
      [] formation = "COLUMN" ->
           << 100, 100, COLUMN_MOVEMENT_BONUS, 100,
              COLUMN_VULNERABILITY, COLUMN_DAMAGE_BONUS, FALSE, 1,
              BaseMaxSpeedOf(type) >>
      [] formation = "SQUARE" ->
           << 100, SQUARE_RELOAD_BONUS, 100, 100,
              100, 100, TRUE, SQUARE_CAVALRY_DEFENSE, 0 >>
      [] OTHER -> << 100, 100, 100, 100, 100, 100, FALSE, 1, BaseMaxSpeedOf(type) >>

ModifiersHeld(u) ==
    << u.accuracyBonus, u.fireRateBonus, u.movementBonus, u.movementPenalty,
       u.vulnerabilityMultiplier, u.damageBonus, u.directionalDefense,
       u.cavalryDefense, u.maxSpeed >>

\* C23: in every state, in both processes, the formation modifiers and the
\* max speed of every unit are the fixed values of its current formation,
\* whatever formation commands and snapshot merges have happened.
C23_ModifiersFollowFormation ==
    \A p \in Procs : \A r \in Range(game[p].units) :
        ModifiersHeld(Obj(game[p], r))
          = ModifiersOf(Obj(game[p], r).type, Obj(game[p], r).formation)

\* the joining process has merged a snapshot in which a selected unit of a
\* battle of three units is in square: the host changed its formation
C23_FormationChangedAndMerged ==
    /\ trace.kind = "Deliver" /\ trace.proc = "guest"
    /\ Len(game["guest"].units) = 3
    /\ \E r \in Range(game["guest"].units) :
          /\ Obj(game["guest"], r).formation = "SQUARE"
          /\ Obj(game["guest"], r).isSelected
    /\ \E r \in Range(game["host"].units) :
          /\ Obj(game["host"], r).formation = "SQUARE"
          /\ Obj(game["host"], r).accuracyBonus = 100

\* C24: in every state, in both processes, the entity count of every unit
\* created, dead or alive, is between 0 and the count its type starts with
\* (maxEntityCount), whatever volleys, impacts and melee contacts it suffered.
C24_EntityCountBounded ==
    \A p \in Procs : \A r \in Refs(game[p]) :
        /\ Obj(game[p], r).entityCount >= 0
        /\ Obj(game[p], r).entityCount <= EntityCountOf(Obj(game[p], r).type)

\* a volley that hit has taken more entities than its target had left: the
\* target is at 0 and out of the registry
C24_KilledByLargerDamage ==
    /\ Advanced
    /\ \E i \in 1..Len(trace.volleys) :
          LET v == trace.volleys[i]
              shooter == v.field.objs[v.sref]
              target == v.field.objs[v.tref]
          IN /\ v.hit
             /\ BaseDamageOf(shooter.type) * shooter.damageBonus
                   * CalculateDirectionalMultiplier(shooter, target) > target.entityCount
             /\ target.entityCount > 0
             /\ Ran.objs[v.tref].entityCount = 0
             /\ v.tref \notin Range(Ran.units)

\* the step is the mouse-up of process p that orders its selection to move
MovesSelection(p) ==
    /\ mp[p].dragStart # <<>> /\ mp'[p].dragStart = <<>>
    /\ game[p].selectedUnits # <<>>

SquareKeepsTarget(p) ==
    \A r \in Range(game[p].selectedUnits) :
        Obj(game[p], r).formation = "SQUARE" =>
            /\ Obj(game'[p], r).targetX = Obj(game[p], r).targetX
            /\ Obj(game'[p], r).targetY = Obj(game[p], r).targetY

AbsorbedWhenNothingSelected(p) ==
    game[p].selectedUnits = <<>> =>
        /\ \A pt \in MousePoints(game[p]) :
              MoveSelectedUnits(game[p], pt[1], pt[2]) = game[p]
        /\ \A f \in {"LINE", "COLUMN", "SQUARE", "NONE"} :
              SetFormationForSelected(game[p], f) = game[p]

\* C25: a move order leaves the movement target of every selected unit in
\* SQUARE as it was, whatever the other selected units and whichever unit is
\* first in the selection; with nothing selected moveSelectedUnits and
\* setFormationForSelected change nothing.
C25_SquareIgnoresMoveOrder ==
    [][\A p \in Procs : /\ MovesSelection(p) => SquareKeepsTarget(p)
                        /\ AbsorbedWhenNothingSelected(p)]_vars

\* a move order to a selection whose second unit is in square: the first
\* unit has the new target, the unit in square the one it held
C25_MixedSelectionOrdered ==
    /\ Len(game["host"].selectedUnits) = 2
    /\ LET first == Obj(game["host"], game["host"].selectedUnits[1])
           second == Obj(game["host"], game["host"].selectedUnits[2])
       IN /\ first.formation = "NONE" /\ first.targetX = 600
          /\ second.formation = "SQUARE"
          /\ second.targetX = 360 /\ second.targetY = second.y

\* C26: a registry unit in SQUARE before and after a callback of the game
\* loop is where it was, at speed 0, whatever movement target it holds and
\* whatever units were in contact with it.
C26_SquareStandsStill ==
    [][\A p \in Procs : Ticks(p) =>
          \A r \in Range(game[p].units) \cap Range(game'[p].units) :
              (Obj(game[p], r).formation = "SQUARE"
                 /\ Obj(game'[p], r).formation = "SQUARE") =>
                  /\ Obj(game'[p], r).x = Obj(game[p], r).x
                  /\ Obj(game'[p], r).y = Obj(game[p], r).y
                  /\ Obj(game'[p], r).speed = 0]_vars

\* half the arc of the shooter, in degrees: 30 for a cannon, 90 for infantry
\* in LINE or COLUMN, 360 in SQUARE, 90 for infantry in no formation
HalfArcGranted(u) ==
    CASE u.type = "CANNON" -> 15
      [] u.type # "INFANTRY" -> 0
      [] u.formation = "SQUARE" -> 180
      [] OTHER -> 45

\* C30: every volley at a living target is fired at a target whose bearing from the shooter is
\* within half the shooter's arc of the shooter's facing, the arc being 30
\* degrees for a cannon, 90 for infantry in LINE, in COLUMN or in no
\* formation, and 360 for infantry in SQUARE.
C30_FireArcWidths ==
    \A i \in 1..Len(trace.volleys) :
        LET v == trace.volleys[i]
            shooter == v.field.objs[v.sref]
            target == v.field.objs[v.tref]
        IN target.entityCount > 0 =>
              AngleWithin(target.x - shooter.x, target.y - shooter.y, shooter.angle,
                          HalfArcGranted(shooter))

\* the last step was a callback in which the opponent made a decision pass
Passed == trace.kind = "AITick" /\ trace.data.type = "pass"

\* C27: the opponent is in OPENING_SETUP after every decision pass made at a
\* game time of at most 5 s since the game and the opponent were reset, and
\* in MAIN_ENGAGEMENT after every later pass.
C27_StateFollowsGameTime ==
    Passed => (trace.data.state = "OPENING_SETUP" <=> trace.data.timestamp <= 5000)

\* the step is a decision pass of the opponent
Passes == trace'.kind = "AITick" /\ trace'.data.type = "pass"

\* C28: a command is executed for a unit id only if no command was executed
\* for that id, since the executor was constructed or reset, less than 500 ms
\* before on the clock, and a pass executes at most one command for a unit
\* id; the executor remembers the time of every execution.
C28_CommandCooldown ==
    [][Passes =>
         LET done == trace'.data.executed
             now == trace'.data.now
         IN /\ \A i, j \in 1..Len(done) : i < j => done[i].unitId # done[j].unitId
            /\ \A i \in 1..Len(done) :
                  /\ done[i].unitId \in DOMAIN ai.unitCooldowns =>
                        now - ai.unitCooldowns[done[i].unitId] >= 500
                  /\ ai'.unitCooldowns[done[i].unitId] = now
            /\ \A id \in DOMAIN ai.unitCooldowns :
                  (\A i \in 1..Len(done) : done[i].unitId # id) =>
                      /\ id \in DOMAIN ai'.unitCooldowns
                      /\ ai'.unitCooldowns[id] = ai.unitCooldowns[id]]_vars

\* a pass has executed a command for a unit commanded 500 ms or more before,
\* and has dropped a second command it had queued for the same unit
C28_SecondCommandDropped ==
    /\ Passed
    /\ \E i \in 1..Len(trace.data.executed) :
          LET cmd == trace.data.executed[i]
          IN /\ cmd.unitId \in DOMAIN trace.data.cooldowns
             /\ trace.data.now - trace.data.cooldowns[cmd.unitId] >= 500
             /\ \E k \in 1..Len(trace.data.queued) :
                   /\ trace.data.queued[k].unitId = cmd.unitId
                   /\ trace.data.queued[k] # cmd

EmergencyRules == {"cannonDefense", "cavalryThreat"}

\* C29: when a decision pass queues an emergency command and a command of
\* the state logic for the same unit, the emergency command is ahead in the
\* queue and is executed in that pass, and the other one is not.
C29_EmergencyOverrides ==
    Passed =>
        \A i, j \in 1..Len(trace.data.queued) :
            LET first == trace.data.queued[i]
                second == trace.data.queued[j]
            IN (/\ first.rule \in EmergencyRules
                /\ second.rule \notin EmergencyRules
                /\ first.unitId = second.unitId) =>
                   /\ i < j
                   /\ \E k \in 1..Len(trace.data.executed) : trace.data.executed[k] = first
                   /\ \A k \in 1..Len(trace.data.executed) : trace.data.executed[k] # second

\* the unit with the id in the registry of g, which holds one
UnitOf(g, id) == Obj(g, FindUnit(g, id))

\* the test of step 5 on the unit itself
ReadyToFire(u) == u.canFire /\ ~u.isReloading

\* the step is a game-loop callback of p
Called(p) == trace'.kind = "GameLoop" /\ trace'.proc = p

\* the step is a callback of p in which the unit with the id fires
FiresIn(p, id) ==
    /\ Called(p)
    /\ \E k \in 1..Len(trace'.volleys) : trace'.volleys[k].shooter = id

\* the volleys of a callback of p: fired by ranged units that were not
\* reloading, one per unit, each leaving its unit reloading with progress 0
VolleysOfReadyUnits(p) ==
    /\ \A k \in 1..Len(trace'.volleys) :
          LET v == trace'.volleys[k]
              s == v.field.objs[v.sref]
          IN /\ IsRanged(s.type) /\ ~s.isReloading
             /\ \A l \in 1..Len(trace'.volleys) :
                   trace'.volleys[l].shooter = v.shooter => l = k
             /\ v.shooter \in UnitIds(game'[p]) =>
                   /\ UnitOf(game'[p], v.shooter).isReloading
                   /\ UnitOf(game'[p], v.shooter).reloadProgress = 0
                   /\ ~ReadyToFire(UnitOf(game'[p], v.shooter))

\* canFire is cleared by startReload alone: a unit without it has fired.  It
\* fires again, or has canFire again, only in a callback of its engine in
\* which its reload progress reaches 1
ReloadedBeforeFiring(p) ==
    \A id \in UnitIds(game[p]) \cap UnitIds(game'[p]) :
        LET u == UnitOf(game[p], id)
        IN (/\ IsRanged(u.type) /\ ~u.canFire
            /\ UnitOf(game'[p], id).canFire \/ FiresIn(p, id))
           => /\ Called(p)
              /\ u.isReloading
              /\ ReadyToFire(UpdateReload(u, trace'.data.dt))

\* C31: a ranged unit fires only while it is not reloading, at most once in
\* a callback, and is reloading with progress 0 right after; once it has
\* fired it fires again only after a callback has completed its reload.
C31_OneVolleyPerReload ==
    [][\A p \in Procs :
          /\ Called(p) => VolleysOfReadyUnits(p)
          /\ ReloadedBeforeFiring(p)]_vars

\* a unit whose reload the callback completed has fired in the same callback
\* and is reloading again
C31_FiredAndReloading ==
    /\ Advanced /\ trace.volleys # <<>>
    /\ \E k \in 1..Len(trace.volleys) :
          LET v == trace.volleys[k]
          IN /\ v.shooter \in UnitIds(Ran)
             /\ UnitOf(Ran, v.shooter).isReloading
             /\ UnitOf(Ran, v.shooter).reloadProgress = 0
             /\ ~UnitOf(Ran, v.shooter).canFire

\* the unit of the host with the id is a living ranged unit without a target
\* while an enemy is in its range, in its arc and in sight
Waiting(id) ==
    /\ id \in UnitIds(game["host"])
    /\ LET u == UnitOf(game["host"], id)
       IN /\ IsRanged(u.type) /\ ~IsDead(u)
          /\ u.currentTarget = NoRef
          /\ AcquireTarget(game["host"], u) # NoRef

\* C32: whatever the time steps of the callbacks, a living ranged unit
\* without a target that has an enemy in range, in arc and in sight comes to
\* its rescan and acquires a target.
C32_RescanReachesEveryUnit ==
    \A id \in 0..(MaxUnits - 1) : Waiting(id) ~> ~Waiting(id)

\* the units of a registry as deployment events describe them
Placed(g) ==
    {[id |-> Obj(g, r).id, type |-> Obj(g, r).type, team |-> Obj(g, r).team,
      x |-> Obj(g, r).x, y |-> Obj(g, r).y] : r \in Range(g.units)}

\* C33: when both peers place units during deployment while connected and
\* every DEPLOY_UNIT event has been delivered, the two registries hold the
\* same units: the same ids, each with the same type, team and position.
C33_DeploymentConverges ==
    (inbox["host"] = <<>> /\ inbox["guest"] = <<>>)
        => Placed(game["host"]) = Placed(game["guest"])

\* C34: a callback of the game loop that finds projectiles in the registry,
\* merged from a snapshot or spawned by a volley, updates them without an
\* exception, and the game loop of the process keeps running.
C34_MergedProjectilesSimulated ==
    [][\A p \in Procs :
          (Called(p) /\ ~game[p].gameOver /\ game[p].projectiles # <<>>)
              => (~trace'.threw /\ mp'[p].running)]_vars

\* the step is the merge of a snapshot by the guest
Merges ==
    /\ trace'.kind = "Deliver" /\ trace'.proc = "guest"
    /\ trace'.data.type = "GAME_STATE_SYNC"

\* every unit of the guest has the movement target and the formation the
\* snapshot gives it
OrdersOfSnapshot ==
    /\ UnitIds(game'["guest"]) = SnapshotIds(trace'.data)
    /\ \A i \in 1..Len(trace'.data.units) :
          LET ru == trace'.data.units[i]
              u == UnitOf(game'["guest"], ru.id)
          IN /\ u.targetX = ru.targetX /\ u.targetY = ru.targetY
             /\ u.formation = ru.formation

\* the step is a command of the guest: a selection, a move order or a
\* formation key, which no callback and no message delivers
GuestCommands == trace'.kind = "quiet" /\ game'["guest"] # game["guest"]

\* C35: right after the guest merges a snapshot every unit of the guest has
\* the movement target and the formation of the snapshot, whatever the guest
\* commanded before; a command of the guest sends nothing and leaves the
\* host as it is.
C35_SnapshotOverridesGuest ==
    [][/\ Merges => OrdersOfSnapshot
       /\ GuestCommands => (game'["host"] = game["host"] /\ inbox' = inbox)
       /\ inbox'["host"] = <<>>]_vars

\* the guest has selected a unit and sent it elsewhere, and has then merged a
\* snapshot in which the unit has no movement target
C35_OrderOverwritten ==
    /\ trace.kind = "Deliver" /\ trace.proc = "guest"
    /\ trace.data.type = "GAME_STATE_SYNC"
    /\ mp["guest"].dragStart = <<>>
    /\ \E i \in 1..Len(game["guest"].selectedUnits) :
          LET u == Obj(game["guest"], game["guest"].selectedUnits[i])
          IN /\ u.id \in UnitIds(game["guest"])
             /\ u.formation # "SQUARE"
             /\ u.targetX = Null

\* C36: a unit whose entity count has reached 0 earlier in an update call (by a
\* projectile impact, a volley or a melee round) inflicts nothing in the rest
\* of the call: it fires no volley, so spawns no projectile, and takes no
\* entity from the unit it is in contact with.  trace holds each volley with
\* the entity count the shooter had when it fired and each melee round with
\* the entity counts of both units before and after it.
C36_DeadUnitInflictsNothing ==
    Advanced =>
        /\ \A k \in 1..Len(trace.volleys) : trace.volleys[k].shooterCount > 0
        /\ \A k \in 1..Len(trace.melees) :
              LET m == trace.melees[k]
              IN /\ m.aBefore <= 0 => m.bAfter = m.bBefore
                 /\ m.bBefore <= 0 => m.aAfter = m.aBefore

\* C37: in every reachable state every ranged unit of the registry of the
\* host and of the guest has canFire exactly when it is not reloading,
\* whatever callbacks, volleys, completed reloads and merged snapshots came
\* before.
C37_CanFireIffNotReloading ==
    \A p \in Procs : \A r \in Range(game[p].units) :
        LET u == Obj(game[p], r)
        IN IsRanged(u.type) => (u.canFire <=> ~u.isReloading)

\* C38: in every reachable state the list of selected units of a process holds
\* exactly the units of its registry whose isSelected flag is set: no unit of
\* the list is absent from the registry and no flagged unit is missing from
\* the list, whatever selections, removals of dead units and merged
\* snapshots came before.
C38_SelectionMatchesRegistry ==
    \A p \in Procs :
        Range(game[p].selectedUnits)
          = {r \in Range(game[p].units) : Obj(game[p], r).isSelected}

\* C39: there is no draw.  A callback of a match not yet decided that ends
\* with no unit of either team in the registry (the last units of both teams
\* fell in it, or there never was a unit) leaves gameOver false and no
\* winner, and so does every later callback; a callback sets gameOver only
\* when it ends with units of exactly one team in the registry.
C39_NoDraw ==
    [][\A p \in Procs :
          (Called(p) /\ ~game[p].gameOver /\ game[p].winner = "none") =>
              LET red == TeamCount(game'[p], "RED")
                  blue == TeamCount(game'[p], "BLUE")
              IN /\ (red = 0 /\ blue = 0) =>
                       (~game'[p].gameOver /\ game'[p].winner = "none")
                 /\ game'[p].gameOver => ((red = 0) # (blue = 0))]_vars

\* the callback removed the last units of both teams, of which there were
\* two, and left the match undecided
C39_BothTeamsFell ==
    /\ Advanced /\ Cardinality(Removed) >= 2
    /\ UnitIds(Ran) = {}
    /\ ~Ran.gameOver /\ Ran.winner = "none"


====
